---- MODULE Spec2Model ----
(***************************************************************************)
(* A model of the HTML-to-PPTX converter (src/convert_to_ppt.py).          *)
(*                                                                         *)
(* Lengths are python-pptx EMU integers (914400 per inch), as the code's   *)
(* Inches(...) objects are.  Texts are TLA+ strings, so substring tests,   *)
(* lengths and the whitespace normalisation are computed character by      *)
(* character, as the code computes them.                                   *)
(***************************************************************************)
EXTENDS Integers, Sequences, FiniteSets, TLC

VARIABLES
    pc,        \* position of the run that the specification models
    doc,       \* the <section> elements of the input document, in order
    slides,    \* what parse_html_slides returned
    deck,      \* the slides of the presentation built so far
    saved,     \* the presentation written to the output file
    img,       \* get_image_size: the image file given (what PIL would read)
    box,       \* get_image_size: the (max_width, max_height) box, in EMU
    size,      \* get_image_size: what the call produced
    handles,   \* the image files get_image_size has open (Image.open)
    arg,       \* the argument of the function a specification applies
    ret,       \* what that function returned
    tmp        \* api_server: the temporary output files present in BASE_DIR

vars == <<pc, doc, slides, deck, saved, img, box, size, handles, arg, ret, tmp>>

(***************************************************************************)
(* Units                                                                   *)
(***************************************************************************)

\* EMU per inch: pptx.util.Inches(1), the divisor the code itself uses.
EMU_PER_INCH == 914400

\* Inches(n / 100) for a length given in hundredths of an inch.
Inches100(n) == (n * EMU_PER_INCH) \div 100

Max2(a, b) == IF a >= b THEN a ELSE b

Min2(a, b) == IF a <= b THEN a ELSE b

Abs(a) == IF a >= 0 THEN a ELSE 0 - a

\* A local variable: Body applied to the value assigned to it.
With(value, Body(_)) == Body(value)

(***************************************************************************)
(* Strings                                                                 *)
(***************************************************************************)

Ch(s, i) == SubSeq(s, i, i)

\* Python's  kw in s
Contains(s, kw) ==
    \E i \in 1..(Len(s) - Len(kw) + 1) : SubSeq(s, i, i + Len(kw) - 1) = kw

\* Python's  s.startswith(p)
StartsWith(s, p) == Len(s) >= Len(p) /\ SubSeq(s, 1, Len(p)) = p

UpperLetters == "ABCDEFGHIJKLMNOPQRSTUVWXYZ"

LowerLetters == "abcdefghijklmnopqrstuvwxyz"

LowerCh(c) ==
    IF \E i \in 1..Len(UpperLetters) : Ch(UpperLetters, i) = c
    THEN Ch(LowerLetters, CHOOSE i \in 1..Len(UpperLetters) : Ch(UpperLetters, i) = c)
    ELSE c

\* The characters lo..hi of s, each in lower case.
RECURSIVE LowerFrom(_, _, _)
LowerFrom(s, lo, hi) ==
    IF lo > hi THEN ""
    ELSE IF lo = hi THEN LowerCh(Ch(s, lo))
    ELSE LowerFrom(s, lo, (lo + hi) \div 2) \o LowerFrom(s, (lo + hi) \div 2 + 1, hi)

\* Python's  s.lower()
Lower(s) == LowerFrom(s, 1, Len(s))

\* The characters of the class in re.sub(r'[...]', '', text), line 36.  The
\* module writes them in ASCII: the fourteen code points of the class,
\*   U+00F0 U+0178 U+2020 U+00E2 U+0161 U+00A0 U+00EF U+00B8
\*   U+201D U+2019 U+00A1 U+0152 U+201C U+0160,
\* are written  ^ ~ + @ $ _ & ; } * ! # { |  in that order.
Denylist == {"^", "~", "+", "@", "$", "_", "&", ";", "}", "*", "!", "#", "{", "|"}

\* Characters str.split() and str.strip() treat as whitespace; U+00A0
\* (written _) is one of them.
Whitespace == {" ", "\n", "\t", "_"}

\* What ' '.join(text.split()) writes for the character at i: nothing for
\* whitespace, the character itself inside a word, and a space before the
\* first character of every word but the first.
SplitJoinAt(s, i) ==
    IF Ch(s, i) \in Whitespace THEN ""
    ELSE IF /\ i > 1 /\ Ch(s, i - 1) \in Whitespace
            /\ \E j \in 1..(i - 1) : Ch(s, j) \notin Whitespace
    THEN " " \o Ch(s, i)
    ELSE Ch(s, i)

RECURSIVE SplitJoinFrom(_, _, _)
SplitJoinFrom(s, lo, hi) ==
    IF lo > hi THEN ""
    ELSE IF lo = hi THEN SplitJoinAt(s, lo)
    ELSE SplitJoinFrom(s, lo, (lo + hi) \div 2) \o SplitJoinFrom(s, (lo + hi) \div 2 + 1, hi)

\* ' '.join(text.split()), line 34
SplitJoin(s) == SplitJoinFrom(s, 1, Len(s))

\* The characters lo..hi of s without those of the class.
RECURSIVE RemoveDenylistFrom(_, _, _)
RemoveDenylistFrom(s, lo, hi) ==
    IF lo > hi THEN ""
    ELSE IF lo = hi THEN (IF Ch(s, lo) \in Denylist THEN "" ELSE Ch(s, lo))
    ELSE RemoveDenylistFrom(s, lo, (lo + hi) \div 2)
         \o RemoveDenylistFrom(s, (lo + hi) \div 2 + 1, hi)

\* re.sub(r'[...]', '', text), line 36
RemoveDenylist(s) == RemoveDenylistFrom(s, 1, Len(s))

\* Python's  s.strip(): from the first to the last character that is not
\* whitespace.
Strip(s) ==
    IF \A i \in 1..Len(s) : Ch(s, i) \in Whitespace THEN ""
    ELSE SubSeq(s, CHOOSE i \in 1..Len(s) :
                       Ch(s, i) \notin Whitespace /\ \A j \in 1..(i - 1) : Ch(s, j) \in Whitespace,
                   CHOOSE i \in 1..Len(s) :
                       Ch(s, i) \notin Whitespace /\ \A j \in (i + 1)..Len(s) : Ch(s, j) \in Whitespace)

\* clean_text, lines 29-37
clean_text(text) ==
    IF text = "" THEN "" ELSE Strip(RemoveDenylist(SplitJoin(text)))

(***************************************************************************)
(* The markup tree (BeautifulSoup)                                         *)
(*                                                                         *)
(* A node is a record: tag ("#text" for a text node), cls (the class       *)
(* attribute, a sequence of names), style, src, alt and bg (the attributes *)
(* style, src, alt and data-background-color), text (of a text node) and   *)
(* kids.  A node inside a Section is named by its path, the child indexes  *)
(* leading to it from the Section's root.                                  *)
(***************************************************************************)

Node(tag, cls, style, kids) ==
    [tag |-> tag, cls |-> cls, style |-> style, src |-> "", alt |-> "",
     bg |-> "", href |-> "", text |-> "", kids |-> kids]

Text(s) == [Node("#text", <<>>, "", <<>>) EXCEPT !.text = s]

\* <tag class="cls">s</tag>
Leaf(tag, cls, s) == Node(tag, cls, "", IF s = "" THEN <<>> ELSE <<Text(s)>>)

ImgTag(src, alt) == [Node("img", <<>>, "", <<>>) EXCEPT !.src = src, !.alt = alt]

\* find() found nothing
None == <<0>>

RECURSIVE NodeAt(_, _)
NodeAt(root, path) ==
    IF path = <<>> THEN root ELSE NodeAt(root.kids[Head(path)], Tail(path))

\* The paths of all descendants of the node at path, in document order.
RECURSIVE DescendantsFrom(_, _, _)
DescendantsFrom(root, path, k) ==
    IF k > Len(NodeAt(root, path).kids) THEN <<>>
    ELSE <<Append(path, k)>> \o DescendantsFrom(root, Append(path, k), 1)
                             \o DescendantsFrom(root, path, k + 1)

Descendants(root, path) == DescendantsFrom(root, path, 1)

\* The direct children of the node at path.
Children(root, path) == [k \in 1..Len(NodeAt(root, path).kids) |-> Append(path, k)]

SelectPaths(paths, root, Test(_)) ==
    SelectSeq(paths, LAMBDA q : Test(NodeAt(root, q)))

HasClass(n, c) == \E i \in 1..Len(n.cls) : n.cls[i] = c

\* soup.find_all(tag) below the node at path
FindAllTag(root, path, tags) ==
    SelectPaths(Descendants(root, path), root, LAMBDA n : n.tag \in tags)

\* soup.find_all(class_=c)
FindAllClass(root, path, classes) ==
    SelectPaths(Descendants(root, path), root,
                LAMBDA n : n.tag # "#text" /\ \E c \in classes : HasClass(n, c))

\* soup.find_all(tag, class_=c)
FindAllTagClass(root, path, tags, c) ==
    SelectPaths(Descendants(root, path), root, LAMBDA n : n.tag \in tags /\ HasClass(n, c))

First(paths) == IF paths = <<>> THEN None ELSE Head(paths)

\* tag.find_next_sibling(name): the first later child of the same parent
FindNextSibling(root, path, tag) ==
    LET parent == SubSeq(path, 1, Len(path) - 1)
        later  == SelectSeq(Children(root, parent), LAMBDA q : q[Len(q)] > path[Len(path)])
    IN  First(SelectPaths(later, root, LAMBDA n : n.tag = tag))

\* tag.parent
Parent(path) == SubSeq(path, 1, Len(path) - 1)

\* tag.get_text(): the text nodes below it, concatenated in document order
RECURSIVE get_text(_)
RECURSIVE KidsText(_, _)
KidsText(kids, k) ==
    IF k > Len(kids) THEN "" ELSE get_text(kids[k]) \o KidsText(kids, k + 1)

get_text(n) == IF n.tag = "#text" THEN n.text ELSE KidsText(n.kids, 1)

\* tag.string: the text of a tag whose only child is a text node (or a tag
\* for which that holds); NoString otherwise.
NoString == "<None>"

RECURSIVE StringOf(_)
StringOf(n) ==
    IF n.tag = "#text" THEN n.text
    ELSE IF Len(n.kids) = 1 THEN StringOf(n.kids[1])
    ELSE NoString

RECURSIVE JoinClasses(_, _)
JoinClasses(cls, k) ==
    IF k > Len(cls) THEN ""
    ELSE (IF k > 1 THEN " " ELSE "") \o cls[k] \o JoinClasses(cls, k + 1)

\* str(tag): the serialized markup
RECURSIVE Serialize(_)
RECURSIVE SerializeKids(_, _)
SerializeKids(kids, k) ==
    IF k > Len(kids) THEN "" ELSE Serialize(kids[k]) \o SerializeKids(kids, k + 1)

Serialize(n) ==
    IF n.tag = "#text" THEN n.text
    ELSE "<" \o n.tag
         \o (IF n.alt # "" THEN " alt=\"" \o n.alt \o "\"" ELSE "")
         \o (IF n.bg # "" THEN " data-background-color=\"" \o n.bg \o "\"" ELSE "")
         \o (IF n.href # "" THEN " href=\"" \o n.href \o "\"" ELSE "")
         \o (IF n.cls # <<>> THEN " class=\"" \o JoinClasses(n.cls, 1) \o "\"" ELSE "")
         \o (IF n.src # "" THEN " src=\"" \o n.src \o "\"" ELSE "")
         \o (IF n.style # "" THEN " style=\"" \o n.style \o "\"" ELSE "")
         \o (IF n.tag = "img" THEN "/>"
             ELSE ">" \o SerializeKids(n.kids, 1) \o "</" \o n.tag \o ">")

(***************************************************************************)
(* The file system the converter runs on                                   *)
(***************************************************************************)

\* The working directory of the run; relative paths are taken from it.
Cwd == "/w"

\* os.path.isabs
IsAbs(p) == StartsWith(p, "/")

\* os.path.abspath, for the paths of the model (none has . or .. parts)
AbsPath(p) == IF IsAbs(p) THEN p ELSE Cwd \o "/" \o p

\* os.path.join(a, b)
PathJoin(a, b) ==
    IF IsAbs(b) THEN b
    ELSE IF a = "" \/ Ch(a, Len(a)) = "/" THEN a \o b
    ELSE a \o "/" \o b

RECURSIVE BasenameFrom(_, _)
BasenameFrom(p, i) ==
    IF i = 0 THEN p
    ELSE IF Ch(p, i) = "/" THEN SubSeq(p, i + 1, Len(p))
    ELSE BasenameFrom(p, i - 1)

\* os.path.basename
Basename(p) == BasenameFrom(p, Len(p))

\* Python's  s.replace(old, '')
RECURSIVE RemoveAll(_, _)
RemoveAll(s, old) ==
    IF s = "" THEN ""
    ELSE IF StartsWith(s, old) THEN RemoveAll(SubSeq(s, Len(old) + 1, Len(s)), old)
    ELSE Ch(s, 1) \o RemoveAll(SubSeq(s, 2, Len(s)), old)

\* An image file without DPI metadata has dpi = NoDpi.
NoDpi == -1

\* What PIL reads from an image file: whether it opens, its pixel size, its
\* DPI.  lw and lh say how the float arithmetic of get_image_size comes out
\* for the file: whether the width (the height) in inches, when it stands
\* for a whole number of EMU, falls just below that number.
ImageFile(readable, pw, ph, dpi) ==
    [readable |-> readable, pw |-> pw, ph |-> ph, dpi |-> dpi, lw |-> FALSE, lh |-> FALSE]

\* The image files of the asset directory and elsewhere, by absolute path.
\* Their sizes are such that the float arithmetic is exact in every box the
\* layouts pass.
ImageFiles ==
    [p \in {"/w/images/chart.png", "/w/images/tall.png", "/w/images/bad.png",
            "/w/images/dot.png", "/w/images/square.png", "/srv/abs.png"} |->
        CASE p = "/w/images/chart.png" -> ImageFile(TRUE, 16, 10, 1)
          [] p = "/w/images/dot.png"   -> ImageFile(TRUE, 1, 1, NoDpi)
          [] p = "/w/images/square.png" -> ImageFile(TRUE, 16, 15, 1)
          [] p = "/w/images/tall.png"  -> ImageFile(TRUE, 3, 8, 1)
          [] p = "/w/images/bad.png"   -> ImageFile(FALSE, 0, 0, NoDpi)
          [] p = "/srv/abs.png"        -> ImageFile(TRUE, 192, 96, NoDpi)]

Directories == {"/w", "/w/images", "/w/images/", "/srv"}

\* os.path.exists
Exists(p) == AbsPath(p) \in DOMAIN ImageFiles \/ AbsPath(p) \in Directories

(***************************************************************************)
(* get_image_size (lines 79-118)                                           *)
(***************************************************************************)

\* dpi = img.info.get('dpi', (96, 96))[0] if 'dpi' in img.info else 96
DEFAULT_DPI == 96

EffectiveDpi(image) == IF image.dpi = NoDpi THEN DEFAULT_DPI ELSE image.dpi

\* Inches(x), line 114, for the float x that stands for num / den EMU: int()
\* cuts the fraction, and a float that stands for a whole number of EMU but
\* fell just below it (below) is cut to the number before.
InchesOf(num, den, below) ==
    IF num % den = 0 /\ below THEN (num \div den) - 1 ELSE num \div den

\* Lines 105-111: the scaling branch.  Lengths in EMU.
\*   width_inches  = pixel_width / dpi,  height_inches = pixel_height / dpi
\*   aspect        = pixel_width / pixel_height
ScaledSize_Stretch(image, dpi, maxW, maxH) ==
    IF image.pw * EMU_PER_INCH > maxW * dpi \/ image.ph * EMU_PER_INCH > maxH * dpi
    THEN IF image.pw > image.ph
         THEN [w |-> maxW, h |-> InchesOf(maxW * image.ph, image.pw, image.lh)]
         ELSE [w |-> maxW, h |-> maxH]
    ELSE [w |-> InchesOf(image.pw * EMU_PER_INCH, dpi, image.lw),
          h |-> InchesOf(image.ph * EMU_PER_INCH, dpi, image.lh)]

ScaledSize(image, dpi, maxW, maxH) ==
    IF image.pw * EMU_PER_INCH > maxW * dpi \/ image.ph * EMU_PER_INCH > maxH * dpi
    THEN IF image.pw > image.ph                       \* aspect > 1: landscape
         THEN [w |-> maxW,                            \* max_w / aspect
               h |-> InchesOf(maxW * image.ph, image.pw, image.lh)]
         ELSE [w |-> InchesOf(maxH * image.pw, image.ph, image.lw),
               h |-> maxH]                            \* max_h * aspect
    ELSE [w |-> InchesOf(image.pw * EMU_PER_INCH, dpi, image.lw),
          h |-> InchesOf(image.ph * EMU_PER_INCH, dpi, image.lh)]

\* Lines 82-114: the body of the try block.  exc names the exception the
\* body ends with: Image.open fails on an unreadable file, pixel_width /
\* pixel_height and pixel_width / dpi divide by zero.
ImageSizeBody(image, maxW, maxH) ==
    IF ~image.readable
    THEN [exc |-> "IOError", w |-> 0, h |-> 0]
    ELSE IF image.ph = 0 \/ EffectiveDpi(image) = 0
    THEN [exc |-> "ZeroDivisionError", w |-> 0, h |-> 0]
    ELSE With(ScaledSize(image, EffectiveDpi(image), maxW, maxH),
              LAMBDA s : [exc |-> "none", w |-> s.w, h |-> s.h])

\* Lines 115-118: except Exception -> Inches(6), Inches(4).
DefaultImageSize == [raised |-> FALSE, w |-> Inches100(600), h |-> Inches100(400)]

get_image_size_OnlyIOError(image, maxW, maxH) ==
    With(ImageSizeBody(image, maxW, maxH),
         LAMBDA r : IF r.exc = "none" THEN [raised |-> FALSE, w |-> r.w, h |-> r.h]
                    ELSE IF r.exc = "IOError" THEN DefaultImageSize
                    ELSE [raised |-> TRUE, w |-> 0, h |-> 0])

get_image_size(image, maxW, maxH) ==
    With(ImageSizeBody(image, maxW, maxH),
         LAMBDA r : IF r.exc = "none" THEN [raised |-> FALSE, w |-> r.w, h |-> r.h]
                    ELSE DefaultImageSize)

\* The with statement of line 82 left only by the return of line 114: an
\* exception raised in the body leaves the file open.
CloseOnExit_ReturnOnly(open, exc) == IF exc = "none" THEN open - 1 ELSE open

\* Line 82, with Image.open(img_path) as img: the number of open files once
\* the block is left, by the return of line 114 or by an exception raised in
\* lines 84-114; the file is closed either way, before the handler of line
\* 115 runs.
CloseOnExit(open, exc) == open - 1

(***************************************************************************)
(* find_images_in_section (lines 39-77) and parse_html_slides (120-155)    *)
(***************************************************************************)

\* Lines 51-64: the path tried for an img src.
ResolveImagePathIn(src, images_dir, PathExists(_)) ==
    With(IF StartsWith(src, "images/") THEN PathJoin(images_dir, RemoveAll(src, "images/"))
         ELSE IF StartsWith(src, "/images/") THEN PathJoin(images_dir, RemoveAll(src, "/images/"))
         ELSE IF IsAbs(src) THEN src
         ELSE PathJoin(images_dir, src),
         LAMBDA first : IF first = "" \/ ~PathExists(first)
                        THEN PathJoin(images_dir, Basename(src)) ELSE first)

\* The same on the file system of the run.
ResolveImagePath(src, images_dir) == ResolveImagePathIn(src, images_dir, Exists)

\* Lines 47-75: the entry of one <img> tag, if its file is found.
ImageEntry(tag, path) ==
    IF tag.src # "" /\ path # "" /\ Exists(path)
    THEN <<[path |-> AbsPath(path), alt |-> tag.alt, style |-> tag.style]>>
    ELSE <<>>

RECURSIVE ImagesOf(_, _, _)
ImagesOf(root, imgTags, images_dir) ==
    IF imgTags = <<>> THEN <<>>
    ELSE ImageEntry(NodeAt(root, Head(imgTags)),
                    ResolveImagePath(NodeAt(root, Head(imgTags)).src, images_dir))
         \o ImagesOf(root, Tail(imgTags), images_dir)

\* An entry for every <img>, found or not.
find_images_in_section_Unchecked(section_soup, images_dir) ==
    With(FindAllTag(section_soup, <<>>, {"img"}), LAMBDA imgTags :
        [k \in 1..Len(imgTags) |->
            [path  |-> AbsPath(PathJoin(images_dir, Basename(NodeAt(section_soup, imgTags[k]).src))),
             alt   |-> NodeAt(section_soup, imgTags[k]).alt,
             style |-> NodeAt(section_soup, imgTags[k]).style]])

\* Lines 39-77: the entries of the <img> tags whose file is found, in
\* document order.
find_images_in_section(section_soup, images_dir) ==
    ImagesOf(section_soup, FindAllTag(section_soup, <<>>, {"img"}), images_dir)

\* Lines 132-153: the slide_data of one <section>.
SlideData(section) ==
    With(First(FindAllTag(section, <<>>, {"h1", "h2"})),
         LAMBDA title_elem :
            [title            |-> IF title_elem = None THEN ""
                                  ELSE clean_text(get_text(NodeAt(section, title_elem))),
             background_color |-> section.bg,
             soup             |-> section,
             images           |-> find_images_in_section(section, "images")])

\* Sections without a heading left out.
parse_html_slides_TitledOnly(sections) ==
    SelectSeq([k \in 1..Len(sections) |-> SlideData(sections[k])], LAMBDA sd : sd.title # "")

\* Lines 129-155: one slide_data per <section>, in document order.
parse_html_slides(sections) == [k \in 1..Len(sections) |-> SlideData(sections[k])]

(***************************************************************************)
(* add_text_element (lines 157-181)                                        *)
(*                                                                         *)
(* A shape of a slide is a record; by and region name the layout and the   *)
(* place in it that added the shape.  The operators that add shapes return *)
(* the sequence of shapes added (empty when nothing is added).             *)
(***************************************************************************)

add_text_element(by, region, text, left, top, width, height, font_size, bold, color, alignment) ==
    IF text = "" \/ Strip(text) = "" THEN <<>>
    ELSE <<[kind |-> "text", by |-> by, region |-> region, text |-> clean_text(text),
            left |-> left, top |-> top, width |-> width, height |-> height,
            font_size |-> font_size, bold |-> bold, color |-> color,
            alignment |-> alignment, path |-> ""]>>

\* slide.shapes.add_picture(img_path, left, top, width, height)
add_picture(by, region, path, left, top, width, height) ==
    <<[kind |-> "picture", by |-> by, region |-> region, text |-> "",
       left |-> left, top |-> top, width |-> width, height |-> height,
       font_size |-> 0, bold |-> FALSE, color |-> "", alignment |-> "", path |-> path]>>

\* The text of the paragraphs (or other tags) at the given paths, cleaned.
CleanTexts(root, paths) == [k \in 1..Len(paths) |-> clean_text(get_text(NodeAt(root, paths[k])))]

\* Lines 186-189: the cursor and margins every call starts from.
left_margin == Inches100(50)

content_width == Inches100(900)

max_y == Inches100(680)

\* The title line most layouts start with (for example lines 212-218).
TitleElement(by, sd, top, height, font_size, color, alignment) ==
    IF sd.title # ""
    THEN add_text_element(by, "title", sd.title, left_margin, top, content_width, height,
                          font_size, TRUE, color, alignment)
    ELSE <<>>

\* What PIL reads at a path: a path that is no image file does not open.
\* Pictures are placed inside try/except (for example lines 308-321), so
\* nothing is added when get_image_size raises or when add_picture, which
\* opens the file itself, cannot read it.
ImageAt(path) ==
    IF path \in DOMAIN ImageFiles THEN ImageFiles[path]
    ELSE ImageFile(FALSE, 0, 0, NoDpi)

(***************************************************************************)
(* The Mission layout (lines 210-323)                                      *)
(***************************************************************************)

\* Lines 233-244 and 247-258: the paragraph after the header, else the first
\* paragraph of the header's parent.
MissionStructured(soup, header) ==
    IF header = None THEN ""
    ELSE With(FindNextSibling(soup, header, "p"), LAMBDA next_p :
         With(First(FindAllTag(soup, Parent(header), {"p"})), LAMBDA p_elem :
            IF next_p # None THEN clean_text(get_text(NodeAt(soup, next_p)))
            ELSE IF p_elem # None THEN clean_text(get_text(NodeAt(soup, p_elem)))
            ELSE ""))

MissionIsChallenge(text) ==
    Contains(Lower(text), "silent killer") \/ Contains(Lower(text), "irreversible damage")

MissionIsQuest(text) ==
    /\ Contains(Lower(text), "model")
    /\ Contains(Lower(text), "lda") \/ Contains(Lower(text), "qda")

\* Lines 263-268: the loop over all paragraphs; it has no break.
RECURSIVE MissionScan(_, _, _)
MissionScan(texts, k, found) ==
    IF k > Len(texts) THEN found
    ELSE IF MissionIsChallenge(texts[k])
         THEN MissionScan(texts, k + 1, [found EXCEPT !.challenge = texts[k]])
    ELSE IF MissionIsQuest(texts[k])
         THEN MissionScan(texts, k + 1, [found EXCEPT !.quest = texts[k]])
    ELSE MissionScan(texts, k + 1, found)

\* Lines 226-268: challenge_text and quest_text.
MissionTexts(soup) ==
    With([challenge |-> MissionStructured(soup, First(FindAllTagClass(soup, <<>>, {"h4"}, "text-primary"))),
          quest     |-> MissionStructured(soup, First(FindAllTagClass(soup, <<>>, {"h4"}, "text-accent")))],
         LAMBDA structured :
            IF structured.challenge = "" \/ structured.quest = ""
            THEN MissionScan(CleanTexts(soup, FindAllTag(soup, <<>>, {"p"})), 1, structured)
            ELSE structured)

\* Lines 306-321: the image of the right column.
ColumnImage(by, img_path, got, col_width, left, top) ==
    IF Exists(img_path) /\ ~got.raised /\ ImageAt(img_path).readable
    THEN add_picture(by, "image", img_path, left, top,
                     IF got.w > col_width THEN col_width ELSE got.w,
                     IF got.w > col_width THEN (got.h * col_width) \div got.w ELSE got.h)
    ELSE <<>>

MissionImage(sd) ==
    ColumnImage("Mission", sd.images[1].path,
                get_image_size(ImageAt(sd.images[1].path), Inches100(400), Inches100(550)),
                Inches100(400), Inches100(550), Inches100(120))

\* Lines 212-304: the title and the two regions of the left column.
MissionColumn(sd, t, y0, y1) ==
    With(Inches100(450), LAMBDA left_col_width :
        TitleElement("Mission", sd, Inches100(20), Inches100(60), 28, "#005088", "LEFT")
        \o (IF t.challenge # ""
            THEN add_text_element("Mission", "challenge_header", "The Challenge", left_margin, y0,
                                  left_col_width, Inches100(40), 18, TRUE, "#005088", "LEFT")
                 \o add_text_element("Mission", "challenge_text", t.challenge, left_margin,
                                     y0 + Inches100(50), left_col_width, Inches100(100),
                                     11, FALSE, "#334155", "LEFT")
            ELSE <<>>)
        \o (IF t.quest # ""
            THEN add_text_element("Mission", "quest_header", "Our Quest", left_margin, y1,
                                  left_col_width, Inches100(40), 18, TRUE, "#11caa0", "LEFT")
                 \o add_text_element("Mission", "quest_text", t.quest, left_margin,
                                     y1 + Inches100(50), left_col_width, Inches100(100),
                                     11, FALSE, "#334155", "LEFT")
            ELSE <<>>))

MissionLayout(sd) ==
    With(MissionTexts(sd.soup), LAMBDA t :
    With(IF sd.title # "" THEN Inches100(100) ELSE Inches100(120), LAMBDA y0 :
        MissionColumn(sd, t, y0,
                      IF t.challenge # "" THEN y0 + Inches100(50) + Inches100(120) ELSE y0)
        \o MissionImage(sd)))

(***************************************************************************)
(* The 537 Million hook layout (lines 326-392)                             *)
(***************************************************************************)

\* Lines 344-376: the loop over the paragraphs; acc = [y, els].
RECURSIVE HookParagraphs(_, _, _)
HookParagraphs(texts, k, acc) ==
    IF k > Len(texts) THEN acc
    ELSE LET text == texts[k]
             center_left  == Inches100(100)
             center_width == Inches100(800)
         IN  IF text = "" \/ Contains(text, "Source") THEN HookParagraphs(texts, k + 1, acc)
             ELSE IF Contains(text, "People worldwide") \/ Contains(Lower(text), "worldwide")
             THEN HookParagraphs(texts, k + 1,
                    [y   |-> acc.y + Inches100(60),
                     els |-> acc.els \o add_text_element("Hook", "worldwide", text, center_left, acc.y,
                                 center_width, Inches100(40), 14, FALSE, "#334155", "CENTER")])
             ELSE IF Contains(Lower(text), "problem") /\ Contains(text, "But")
             THEN HookParagraphs(texts, k + 1,
                    [y   |-> acc.y + Inches100(50),
                     els |-> acc.els \o add_text_element("Hook", "problem", text, center_left, acc.y,
                                 center_width, Inches100(40), 16, TRUE, "#005088", "CENTER")])
             ELSE IF Contains(Lower(text), "undetected") \/ Contains(Lower(text), "complications")
             THEN HookParagraphs(texts, k + 1,
                    [y   |-> acc.y + Inches100(50),
                     els |-> acc.els \o add_text_element("Hook", "undetected", text, center_left, acc.y,
                                 center_width, Inches100(40), 13, FALSE, "#64748b", "CENTER")])
             ELSE HookParagraphs(texts, k + 1, acc)

\* Lines 329-342: the number, written when the h1 holds 537; acc = [y, els].
HookNumber(soup, h1_elem) ==
    IF h1_elem # None /\ Contains(clean_text(get_text(NodeAt(soup, h1_elem))), "537")
    THEN [y   |-> Inches100(360),
          els |-> add_text_element("Hook", "number", "537 Million", Inches100(100), Inches100(180),
                                   Inches100(800), Inches100(150), 80, TRUE, "#ef4444", "CENTER")]
    ELSE [y |-> Inches100(120), els |-> <<>>]

\* Lines 379-390: the first paragraph naming its Source, below the others.
HookSource(body, sources) ==
    body.els
    \o (IF sources # <<>>
        THEN add_text_element("Hook", "source", sources[1], Inches100(100), body.y,
                              Inches100(800), Inches100(30), 10, FALSE, "#64748b", "CENTER")
        ELSE <<>>)

HookLayout(sd) ==
    With(CleanTexts(sd.soup, FindAllTag(sd.soup, <<>>, {"p"})), LAMBDA texts :
        HookSource(HookParagraphs(texts, 1,
                       HookNumber(sd.soup, First(FindAllTag(sd.soup, <<>>, {"h1"})))),
                   SelectSeq(texts, LAMBDA t : Contains(t, "Source"))))

(***************************************************************************)
(* The Class Imbalance layout (lines 543-682)                              *)
(***************************************************************************)

\* soup.find('p', string=<test>) and then the scan of all paragraphs, with
\* its break (lines 554-560 and alike): the paragraph used as subtitle.
SubtitleParagraph(soup, keyword) ==
    With(FindAllTag(soup, <<>>, {"p"}), LAMBDA ps :
    With(SelectPaths(ps, soup,
                     LAMBDA n : StringOf(n) # NoString /\ StringOf(n) # ""
                                /\ Contains(Lower(StringOf(n)), keyword)), LAMBDA byString :
        IF byString # <<>> THEN Head(byString)
        ELSE First(SelectPaths(ps, soup,
                       LAMBDA n : Contains(Lower(clean_text(get_text(n))), keyword)))))

SubtitleElement(by, sd, keyword, top, font_size) ==
    With(SubtitleParagraph(sd.soup, keyword), LAMBDA subtitle :
        IF subtitle # None
        THEN add_text_element(by, "subtitle", clean_text(get_text(NodeAt(sd.soup, subtitle))),
                              left_margin, top, content_width, Inches100(30),
                              font_size, FALSE, "#64748b", "LEFT")
        ELSE <<>>)

\* Lines 576-591: the chart of the left column.
ClassImbalanceImage(sd) ==
    IF sd.images = <<>> THEN <<>>
    ELSE ColumnImage("ClassImbalance", sd.images[1].path,
                     get_image_size(ImageAt(sd.images[1].path), Inches100(500), Inches100(500)),
                     Inches100(500), left_margin, Inches100(130))

\* Lines 597-605: the list items of the first bg-light element.
NumbersStructured(soup) ==
    With(First(FindAllClass(soup, <<>>, {"bg-light"})), LAMBDA bg_light :
        IF bg_light = None THEN <<>>
        ELSE SelectSeq(CleanTexts(soup, FindAllTag(soup, bg_light, {"li"})),
                       LAMBDA t : t # "" /\ (Contains(t, "No Diabetes") \/ Contains(t, "Diabetes"))))

\* Lines 608-612: the list items that show the percentages.
NumbersKeyword(soup) ==
    SelectSeq(CleanTexts(soup, FindAllTag(soup, <<>>, {"li"})),
              LAMBDA t : Contains(t, "65%") \/ Contains(t, "35%"))

NumbersDefault == <<"No Diabetes: ~500 cases (65%)", "Diabetes: ~265 cases (35%)">>

\* Lines 597-616: numbers_details.
NumbersDetails(soup) ==
    With(NumbersStructured(soup), LAMBDA structured :
    With(NumbersKeyword(soup), LAMBDA keyword :
        IF structured # <<>> THEN structured
        ELSE IF keyword # <<>> THEN keyword
        ELSE NumbersDefault))

\* s.split(':', 1)[-1]: what follows the first colon, or all of s
AfterFirstColon(s) ==
    IF ~Contains(s, ":") THEN s
    ELSE SubSeq(s, 1 + (CHOOSE i \in 1..Len(s) :
                           Ch(s, i) = ":" /\ \A j \in 1..(i - 1) : Ch(s, j) # ":"), Len(s))

\* warning_text.split(':', 1)[-1].strip(), applied when the text names the
\* Warning Sign (lines 648-649 and 657-658).
DropWarningPrefix(text) ==
    IF Contains(text, "Warning Sign") THEN Strip(AfterFirstColon(text)) ELSE text

\* Lines 642-649: the first paragraph of the div styled as the warning box.
WarningStructured(soup) ==
    With(First(SelectPaths(FindAllTag(soup, <<>>, {"div"}), soup,
                   LAMBDA n : Contains(Lower(n.style), "fef2f2")
                              \/ Contains(Lower(n.style), "ef4444"))), LAMBDA warning_div :
    With(IF warning_div = None THEN None ELSE First(FindAllTag(soup, warning_div, {"p"})),
         LAMBDA p :
            IF p = None THEN "" ELSE DropWarningPrefix(clean_text(get_text(NodeAt(soup, p))))))

WarningMatches(text) ==
    \/ Contains(Lower(text), "2:1 imbalance")
    \/ Contains(Lower(text), "imbalance") /\ Contains(Lower(text), "majority class")

\* Lines 652-659: the first paragraph about the imbalance (the loop breaks).
WarningKeyword(soup) ==
    With(SelectSeq(CleanTexts(soup, FindAllTag(soup, <<>>, {"p"})), WarningMatches),
         LAMBDA hits : IF hits = <<>> THEN "" ELSE DropWarningPrefix(hits[1]))

WarningDefault ==
    "A 2:1 imbalance means our model might favor the majority class. This will become critical later in our story."

\* Lines 640-663: warning_text.
WarningText(soup) ==
    With(WarningStructured(soup), LAMBDA structured :
    With(WarningKeyword(soup), LAMBDA keyword :
        IF structured # "" THEN structured
        ELSE IF keyword # "" THEN keyword
        ELSE WarningDefault))

\* The bullet the code writes before a list line: U+00E2 U+20AC U+00A2 and a
\* space (U+20AC is written = and U+00A2 is written / here).
Bullet == "@=/ "

\* Lines 629-635: the first two details, one bullet line each.
RECURSIVE NumbersLines(_, _, _)
NumbersLines(details, k, y) ==
    IF k > Len(details) \/ k > 2 THEN <<>>
    ELSE add_text_element("ClassImbalance", "numbers_detail", Bullet \o details[k],
                          Inches100(550) + Inches100(10), y,
                          Inches100(400) - Inches100(20), Inches100(30),
                          10, FALSE, "#334155", "LEFT")
         \o NumbersLines(details, k + 1, y + Inches100(35))

\* Lines 593-681: the right column, from the cursor y0.
ClassImbalanceColumn(numbers, warning, y0) ==
    LET right_col_left  == Inches100(550)
        right_col_width == Inches100(400)
        shown == IF Len(numbers) < 2 THEN Len(numbers) ELSE 2
        y1 == (IF numbers # <<>> THEN y0 + Inches100(50) + shown * Inches100(35) ELSE y0)
              + Inches100(20)
    IN  (IF numbers # <<>>
            THEN add_text_element("ClassImbalance", "numbers_header", "The Numbers",
                                  right_col_left, y0, right_col_width, Inches100(40),
                                  16, TRUE, "#005088", "LEFT")
                 \o NumbersLines(numbers, 1, y0 + Inches100(50))
            ELSE <<>>)
        \o (IF warning # ""
            THEN add_text_element("ClassImbalance", "warning_header", "@$_&; Warning Sign:",
                                  right_col_left, y1, right_col_width, Inches100(40),
                                  16, TRUE, "#92400e", "LEFT")
                 \o add_text_element("ClassImbalance", "warning_text", warning,
                                     right_col_left + Inches100(10), y1 + Inches100(50),
                                     right_col_width - Inches100(20), Inches100(80),
                                     10, FALSE, "#92400e", "LEFT")
            ELSE <<>>)

ClassImbalanceLayout(sd) ==
    TitleElement("ClassImbalance", sd, Inches100(20), Inches100(60), 28, "#005088", "LEFT")
    \o SubtitleElement("ClassImbalance", sd, "first challenge", Inches100(90), 11)
    \o ClassImbalanceImage(sd)
    \o ClassImbalanceColumn(NumbersDetails(sd.soup), WarningText(sd.soup), Inches100(130))

(***************************************************************************)
(* The Data Preprocessing layout (lines 685-820)                           *)
(***************************************************************************)

Step1IsMain(text) ==
    /\ text # "" /\ Len(text) > 30
    /\ \/ Contains(Lower(text), "impossible zero")
       \/ Contains(Lower(text), "median values")
       \/ Contains(text, "NA")

Step1IsMotto(text) ==
    text # "" /\ (Contains(text, "Quality data") \/ Contains(Lower(text), "reliable results"))

Step2IsMain(text) ==
    /\ text # "" /\ Len(text) > 20
    /\ \/ Contains(text, "70%") \/ Contains(text, "Training")
       \/ Contains(text, "Testing") \/ Contains(Lower(text), "stratified")

Step2IsMotto(text) ==
    text # "" /\ (Contains(text, "Fair evaluation") \/ Contains(Lower(text), "fair splits"))

\* What a loop that assigns on every match and never breaks leaves in its
\* variable: the last match, or the value it had before the loop.
LastOr(matches, before) == IF matches = <<>> THEN before ELSE matches[Len(matches)]

\* Lines 725-754: the two bg-light divs, each scanned by an if/elif loop
\* without break.
PreprocessingStructured(soup) ==
    With(FindAllClass(soup, <<>>, {"bg-light"}), LAMBDA bg_lights :
        IF Len(bg_lights) >= 2
        THEN With(CleanTexts(soup, FindAllTag(soup, bg_lights[1], {"p"})), LAMBDA ps1 :
             With(CleanTexts(soup, FindAllTag(soup, bg_lights[2], {"p"})), LAMBDA ps2 :
                [step1_text  |-> LastOr(SelectSeq(ps1, Step1IsMain), ""),
                 step1_motto |-> LastOr(SelectSeq(ps1, LAMBDA t : ~Step1IsMain(t) /\ Step1IsMotto(t)), ""),
                 step2_text  |-> LastOr(SelectSeq(ps2, Step2IsMain), ""),
                 step2_motto |-> LastOr(SelectSeq(ps2, LAMBDA t : ~Step2IsMain(t) /\ Step2IsMotto(t)), "")]))
        ELSE [step1_text |-> "", step1_motto |-> "", step2_text |-> "", step2_motto |-> ""])

FallbackIsStep1(text) ==
    Contains(Lower(text), "impossible zero") \/ Contains(Lower(text), "median values")

FallbackIsStep2(text) ==
    Contains(text, "70%") \/ (Contains(text, "Training") /\ Contains(text, "Testing"))

\* Lines 759-768: the if/elif loop over all paragraphs, without break.
PreprocessingScan(texts, found) ==
    [step1_text  |-> LastOr(SelectSeq(texts, FallbackIsStep1), found.step1_text),
     step2_text  |-> LastOr(SelectSeq(texts, LAMBDA t : ~FallbackIsStep1(t) /\ FallbackIsStep2(t)),
                            found.step2_text),
     step1_motto |-> LastOr(SelectSeq(texts, LAMBDA t : /\ ~FallbackIsStep1(t) /\ ~FallbackIsStep2(t)
                                                        /\ Contains(t, "Quality data")),
                            found.step1_motto),
     step2_motto |-> LastOr(SelectSeq(texts, LAMBDA t : /\ ~FallbackIsStep1(t) /\ ~FallbackIsStep2(t)
                                                        /\ ~Contains(t, "Quality data")
                                                        /\ Contains(t, "Fair evaluation")),
                            found.step2_motto)]

\* Lines 719-768: step1_text, step1_motto, step2_text, step2_motto.
PreprocessingTexts(soup) ==
    With(PreprocessingStructured(soup), LAMBDA structured :
        IF structured.step1_text = "" \/ structured.step2_text = ""
        THEN PreprocessingScan(CleanTexts(soup, FindAllTag(soup, <<>>, {"p"})), structured)
        ELSE structured)

\* Lines 772-793 and 797-818: one step's box.
StepBox(region, title, text, motto, left, color) ==
    LET box_width == Inches100(430)
        box_y     == Inches100(140)
    IN  IF text = "" THEN <<>>
        ELSE add_text_element("Preprocessing", region \o "_title", title,
                              left + Inches100(20), box_y,
                              box_width - Inches100(40), Inches100(40), 16, TRUE, color, "LEFT")
             \o add_text_element("Preprocessing", region \o "_text", text,
                                 left + Inches100(20), box_y + Inches100(50),
                                 box_width - Inches100(40), Inches100(120),
                                 10, FALSE, "#334155", "LEFT")
             \o (IF motto # ""
                 THEN add_text_element("Preprocessing", region \o "_motto", motto,
                                       left + Inches100(20), box_y + Inches100(180),
                                       box_width - Inches100(40), Inches100(30),
                                       9, FALSE, "#64748b", "LEFT")
                 ELSE <<>>)

PreprocessingLayout(sd) ==
    With(PreprocessingTexts(sd.soup), LAMBDA t :
        TitleElement("Preprocessing", sd, Inches100(20), Inches100(60), 28, "#005088", "LEFT")
        \o SubtitleElement("Preprocessing", sd, "clean our data", Inches100(90), 11)
        \o StepBox("step1", "Step 1: Data Cleaning", t.step1_text, t.step1_motto,
                   left_margin, "#005088")
        \o StepBox("step2", "Step 2: Train-Test Split", t.step2_text, t.step2_motto,
                   left_margin + Inches100(430) + Inches100(40), "#11caa0"))

(***************************************************************************)
(* The layouts whose content regions later sections of this development    *)
(* add: the title line each of them starts with.                           *)
(***************************************************************************)

\* Lines 396-403
OurDataLayout(sd) ==
    TitleElement("OurData", sd, Inches100(20), Inches100(60), 28, "#005088", "LEFT")

\* Lines 824-830
DataVizLayout(sd) ==
    TitleElement("DataViz", sd, Inches100(15), Inches100(50), 26, "#005088", "LEFT")

\* Lines 950-956
CorrelationsLayout(sd) ==
    TitleElement("Correlations", sd, Inches100(20), Inches100(60), 28, "#005088", "LEFT")

\* Lines 1086-1092
PcaTitle(sd) ==
    TitleElement("PCA", sd, Inches100(20), Inches100(60), 28, "#005088", "LEFT")

\* Lines 1108-1116: the caption below the image.
PcaCaption(soup, caption, height) ==
    IF caption = None THEN <<>>
    ELSE add_text_element("PCA", "caption", clean_text(get_text(NodeAt(soup, caption))),
                          left_margin, Inches100(100) + height + Inches100(5),
                          Inches100(500), Inches100(25), 8, FALSE, "#64748b", "LEFT")

\* Lines 1100-1118: the left column, the first image and its caption.
PcaImage(sd, got) ==
    IF sd.images = <<>> THEN <<>>
    ELSE IF Exists(sd.images[1].path) /\ ~got.raised /\ ImageAt(sd.images[1].path).readable
    THEN add_picture("PCA", "image", sd.images[1].path,
                     left_margin, Inches100(100), got.w, got.h)
         \o PcaCaption(sd.soup, First(FindAllClass(sd.soup, <<>>, {"image-caption"})), got.h)
    ELSE <<>>

\* clean_text(card.find(tag).get_text()), "" when the card or the tag is
\* missing (for example lines 1136-1143).
PcaCardPart(soup, card, tag) ==
    IF card = None THEN ""
    ELSE With(First(FindAllTag(soup, card, {tag})), LAMBDA found :
        IF found = None THEN "" ELSE clean_text(get_text(NodeAt(soup, found))))

\* Lines 1133-1180: the header and the details of a card; both are the
\* fallback's when the card has no header.
PcaCard(soup, card, fallback_text, fallback_details) ==
    IF PcaCardPart(soup, card, "h4") = ""
    THEN [text |-> fallback_text, details |-> fallback_details]
    ELSE [text |-> PcaCardPart(soup, card, "h4"), details |-> PcaCardPart(soup, card, "p")]

\* Lines 1165-1180
KeyObservationFallback ==
    "Heavy Overlap: The first two principal components show significant overlap between diabetes and no-diabetes groups, indicating that linear separation in reduced space is challenging. This supports the need for discriminant analysis methods."

\* The text cut to 150 characters before the dots.
TruncateDetails_At150(details) ==
    IF Len(details) > 150 THEN SubSeq(details, 1, 150) \o "..." ELSE details

\* Lines 1223-1225: card3_details[:147] + "..." when longer than 150.
TruncateDetails(details) ==
    IF Len(details) > 150 THEN SubSeq(details, 1, 147) \o "..." ELSE details

\* Lines 1183-1230: a card drawn in the right column at card_y.
PcaDrawCard(name, card, details, card_y, color, details_height, details_size) ==
    IF card.text = "" THEN <<>>
    ELSE add_text_element("PCA", name \o "_text", card.text,
                          Inches100(550) + Inches100(10), card_y,
                          Inches100(400) - Inches100(20), Inches100(35),
                          14, TRUE, color, "LEFT")
         \o (IF details = "" THEN <<>>
             ELSE add_text_element("PCA", name \o "_details", details,
                          Inches100(550) + Inches100(10), card_y + Inches100(40),
                          Inches100(400) - Inches100(20), details_height,
                          details_size, FALSE, "#334155", "LEFT"))

\* Lines 1127-1230: the three cards of the right column.  The search of
\* lines 1128-1131 runs only when the first found no card, and then finds
\* none either.
PcaCards(texts) ==
    PcaDrawCard("card1", texts[1], texts[1].details, Inches100(100), "#11caa0", Inches100(60), 9)
    \o PcaDrawCard("card2", texts[2], texts[2].details,
                   Inches100(100) + Inches100(100) + Inches100(15), "#005088", Inches100(60), 9)
    \o PcaDrawCard("card3", texts[3], TruncateDetails(texts[3].details),
                   Inches100(100) + 2 * (Inches100(100) + Inches100(15)), "#005088",
                   Inches100(80), 8)

\* Lines 1133-1180: the texts of the three cards.  (The plus sign of the
\* fallback of line 1147 is spelled out: in the model's alphabet + stands
\* for U+2020.)
PcaCardTexts(soup, cards) ==
    << PcaCard(soup, IF Len(cards) >= 1 THEN cards[1] ELSE None,
               "47.23% Variance Explained",
               "First 2 components (PC1 plus PC2) capture less than half of total variance."),
       PcaCard(soup, IF Len(cards) >= 2 THEN cards[2] ELSE None,
               "5 Components Needed",
               "Required to capture >80% of the dataset's information."),
       PcaCard(soup, First(FindAllClass(soup, <<>>, {"bg-light"})),
               "Key Observation", KeyObservationFallback) >>

\* Lines 1085-1232
PcaLayout(sd) ==
    PcaTitle(sd)
    \o PcaImage(sd, IF sd.images = <<>> THEN DefaultImageSize
                    ELSE get_image_size(ImageAt(sd.images[1].path), Inches100(500), Inches100(450)))
    \o PcaCards(PcaCardTexts(sd.soup, FindAllClass(sd.soup, <<>>, {"card"})))

\* Lines 1238-1244
ModelPerformanceLayout(sd) ==
    TitleElement("ModelPerformance", sd, Inches100(20), Inches100(60), 28, "#005088", "LEFT")

\* Lines 1378-1384
LdaVsQdaLayout(sd) ==
    TitleElement("LdaVsQda", sd, Inches100(20), Inches100(60), 28, "#005088", "LEFT")

\* Lines 1597-1603
BlindSpotLayout(sd) ==
    TitleElement("BlindSpot", sd, Inches100(20), Inches100(60), 28, "#ef4444", "LEFT")

\* Lines 1745-1751
PlotTwistLayout(sd) ==
    TitleElement("PlotTwist", sd, Inches100(20), Inches100(60), 28, "#005088", "LEFT")

\* Lines 1921-1927
DashboardTitle(sd) ==
    TitleElement("Dashboard", sd, Inches100(20), Inches100(50), 24, "#005088", "LEFT")

\* Lines 1929-1938: the first paragraph, when it is the subtitle.
DashboardSubtitle(soup, subtitle) ==
    IF subtitle = None THEN <<>>
    ELSE With(clean_text(get_text(NodeAt(soup, subtitle))), LAMBDA subtitle_text :
        IF Contains(Lower(subtitle_text), "class balance") \/ Contains(Lower(subtitle_text), "smote")
        THEN add_text_element("Dashboard", "subtitle", subtitle_text,
                              left_margin, Inches100(70), content_width, Inches100(25),
                              10, FALSE, "#64748b", "LEFT")
        ELSE <<>>)

\* Lines 1956-1963: the caption below the image.
DashboardCaption(soup, caption, height) ==
    IF caption = None THEN <<>>
    ELSE add_text_element("Dashboard", "caption", clean_text(get_text(NodeAt(soup, caption))),
                          left_margin, Inches100(110) + height + Inches100(5),
                          Inches100(500), Inches100(25), 7, FALSE, "#64748b", "CENTER")

\* Lines 1946-1965: the left column, the first image and its caption.
DashboardImage(sd, got) ==
    IF sd.images = <<>> THEN <<>>
    ELSE IF Exists(sd.images[1].path) /\ ~got.raised /\ ImageAt(sd.images[1].path).readable
    THEN add_picture("Dashboard", "image", sd.images[1].path,
                     left_margin, Inches100(110), got.w, got.h)
         \o DashboardCaption(sd.soup, First(FindAllClass(sd.soup, <<>>, {"image-caption"})), got.h)
    ELSE <<>>

\* Lines 1973-1980: the elements of class card.  The search of lines 1974-1980
\* runs only when the first found none, and then finds none either.
DashboardCards(soup) == FindAllClass(soup, <<>>, {"card"})

\* cards[k - 1] if the list is that long (lines 1983-1985, 2014-2016)
CardAt(cards, k) == IF Len(cards) >= k THEN cards[k] ELSE None

\* Lines 1990-1995 and 2021-2025: the header of a box, the card's h4 if it has
\* one.  The icon sequences that lines 1995 and 2025 replace hold characters
\* clean_text has removed, so the replacements change nothing.
CardHeader(soup, card, default) ==
    IF card = None THEN default
    ELSE With(First(FindAllTag(soup, card, {"h4"})), LAMBDA h4 :
        IF h4 = None THEN default ELSE Strip(clean_text(get_text(NodeAt(soup, h4)))))

\* Lines 1997-2002 and 2027-2032: the list items of the card's first list.
CardItems(soup, card) ==
    IF card = None THEN <<>>
    ELSE With(First(FindAllTag(soup, card, {"ul"})), LAMBDA ul :
        IF ul = None THEN <<>>
        ELSE SelectSeq(CleanTexts(soup, FindAllTag(soup, ul, {"li"})), LAMBDA t : t # ""))

\* Lines 2004-2011
FeaturesDefault ==
    << "Class Distribution Slider: Adjust from 40% to 70% to see how balance affects performance",
       "SMOTE Toggle: Enable/disable synthetic oversampling",
       "Real-Time Updates: Metrics recalculate with actual R model training",
       "Live ROC Curves: Watch curves update as parameters change" >>

\* Lines 2034-2041
ExploreDefault ==
    << "Balanced Classes (50/50): See how specificity improves",
       "SMOTE Impact: Compare with/without synthetic oversampling",
       "Model Comparison: Watch LDA vs QDA performance change",
       "Tooltips: Hover over metrics for explanations" >>

OrDefault(items, default) == IF items = <<>> THEN default ELSE items

\* Lines 2051-2058 and 2070-2077: the first four items, one bullet line each
\* while the cursor is above the limit; the cursor after them.
RECURSIVE BoxItems(_, _, _, _, _)
BoxItems(region, items, k, limit, acc) ==
    IF k > Len(items) \/ k > 4 THEN acc
    ELSE IF acc.y < limit
    THEN BoxItems(region, items, k + 1, limit,
            [y   |-> acc.y + Inches100(32),
             els |-> acc.els \o add_text_element("Dashboard", region,
                        IF StartsWith(items[k], "@=/") THEN items[k] ELSE Bullet \o items[k],
                        Inches100(550) + Inches100(15), acc.y,
                        Inches100(400) - Inches100(30), Inches100(30),
                        8, FALSE, "#334155", "LEFT")])
    ELSE BoxItems(region, items, k + 1, limit, acc)

\* Lines 2044-2049 and 2063-2068: the header of a box at the cursor.
BoxHeader(region, header, box_y) ==
    add_text_element("Dashboard", region, header,
                     Inches100(550) + Inches100(10), box_y,
                     Inches100(400) - Inches100(20), Inches100(30),
                     12, TRUE, "#005088", "LEFT")

\* Lines 2043-2077: a box, its header and its items, from the cursor box_y.
DashboardBox(name, header, items, limit, box_y) ==
    With(BoxItems(name \o "_item", items, 1, limit, [y |-> box_y + Inches100(35), els |-> <<>>]),
         LAMBDA drawn : [y |-> drawn.y, els |-> BoxHeader(name \o "_header", header, box_y) \o drawn.els])

\* The two boxes with the limit of the first at 2in.
DashboardBoxes_LowLimit(soup, cards) ==
    With(DashboardBox("features", CardHeader(soup, CardAt(cards, 1), "Interactive Features"),
                      OrDefault(CardItems(soup, CardAt(cards, 1)), FeaturesDefault),
                      Inches100(200), Inches100(110)),
         LAMBDA features :
            features.els
            \o DashboardBox("explore", CardHeader(soup, CardAt(cards, 2), "What You Can Explore"),
                            OrDefault(CardItems(soup, CardAt(cards, 2)), ExploreDefault),
                            Inches100(550), features.y + Inches100(10)).els)

\* Lines 2043-2077: the two boxes of the right column.
DashboardBoxes(soup, cards) ==
    With(DashboardBox("features", CardHeader(soup, CardAt(cards, 1), "Interactive Features"),
                      OrDefault(CardItems(soup, CardAt(cards, 1)), FeaturesDefault),
                      Inches100(300), Inches100(110)),
         LAMBDA features :
            features.els
            \o DashboardBox("explore", CardHeader(soup, CardAt(cards, 2), "What You Can Explore"),
                            OrDefault(CardItems(soup, CardAt(cards, 2)), ExploreDefault),
                            Inches100(550), features.y + Inches100(10)).els)

\* Lines 2082-2094: the href of the first link to the dashboard, the
\* default address when there is none.
DemoUrl(soup) ==
    With(SelectPaths(FindAllTag(soup, <<>>, {"a"}), soup,
                     LAMBDA a : Contains(a.href, "vercel.app") \/ Contains(Lower(a.href), "dashboard")),
         LAMBDA links :
            IF links = <<>>
            THEN "https://asds-5303-final-project-presentatio.vercel.app/dashboard.html"
            ELSE NodeAt(soup, Head(links)).href)

DemoLine(region, text, top, font_size, bold, color) ==
    add_text_element("Dashboard", region, text,
                     left_margin + Inches100(10), top,
                     content_width - Inches100(20), Inches100(25),
                     font_size, bold, color, "LEFT")

\* Lines 2079-2118: the Live Demo lines at the bottom.
DashboardDemo(soup) ==
    DemoLine("demo_header", "Live Demo: Try the interactive dashboard yourself!",
             Inches100(560), 10, TRUE, "#005088")
    \o DemoLine("demo_url", DemoUrl(soup), Inches100(560) + Inches100(30), 9, FALSE, "#2563eb")
    \o DemoLine("instruction",
                "Adjust the slider and toggle SMOTE to see real-time model performance changes.",
                Inches100(560) + Inches100(30) + Inches100(30), 8, FALSE, "#64748b")

\* Lines 1920-2120
DashboardLayout(sd) ==
    DashboardTitle(sd)
    \o DashboardSubtitle(sd.soup, First(FindAllTag(sd.soup, <<>>, {"p"})))
    \o DashboardImage(sd, IF sd.images = <<>> THEN DefaultImageSize
                          ELSE get_image_size(ImageAt(sd.images[1].path),
                                              Inches100(500), Inches100(400)))
    \o DashboardBoxes(sd.soup, DashboardCards(sd.soup))
    \o DashboardDemo(sd.soup)

\* Lines 2124-2130
LearnedLayout(sd) ==
    TitleElement("Learned", sd, Inches100(20), Inches100(60), 28, "#005088", "LEFT")

\* Lines 2300-2305
QuestionsTitle(sd) ==
    TitleElement("Questions", sd, Inches100(50), Inches100(100), 48, "#ffffff", "CENTER")

\* Lines 2315-2317: the first div, in document order, whose text holds
\* 'References' in any case.
QuestionsRefDiv(soup) ==
    First(SelectSeq(FindAllTag(soup, <<>>, {"div"}), LAMBDA q :
        Contains(Lower(clean_text(get_text(NodeAt(soup, q)))), "references")))

\* Lines 2319-2326: the paragraphs of the div longer than 20 characters
\* that do not hold 'References', then its list items longer than 20.
\* (The split of lines 2327-2339 is at line breaks, which clean_text has
\* replaced by spaces, so it finds no item.)
QuestionsFound(soup, div) ==
    IF div = None THEN <<>>
    ELSE SelectSeq(CleanTexts(soup, FindAllTag(soup, div, {"p"})),
                   LAMBDA t : Len(t) > 20 /\ ~Contains(t, "References"))
         \o SelectSeq(CleanTexts(soup, FindAllTag(soup, div, {"li"})), LAMBDA t : Len(t) > 20)

\* Lines 2343-2350.  (The ampersands of the source are spelled out: in the
\* model's alphabet & stands for U+00EF.  @={ stands for the three
\* characters the source has for the dash of the fifth reference.)
DefaultReferences ==
    << "1. International Diabetes Federation. (2021). IDF Diabetes Atlas, 10th Edition. Brussels, Belgium: International Diabetes Federation.",
       "2. National Institute of Diabetes and Digestive and Kidney Diseases. Pima Indians Diabetes Database. UCI Machine Learning Repository.",
       "3. James, G., Witten, D., Hastie, T., and Tibshirani, R. (2013). An Introduction to Statistical Learning: with Applications in R. New York: Springer.",
       "4. Venables, W. N., and Ripley, B. D. (2002). Modern Applied Statistics with S (4th ed.). New York: Springer.",
       "5. American Diabetes Association. (2023). Standards of Care in Diabetes @={ 2023. Diabetes Care, 46(Supplement 1), S1-S291.",
       "6. Chawla, N. V., Bowyer, K. W., Hall, L. O., and Kegelmeyer, W. P. (2002). SMOTE: Synthetic Minority Over-sampling Technique. Journal of Artificial Intelligence Research, 16, 321-357." >>

\* Lines 2312-2352: references_text.
QuestionsReferences(soup) ==
    IF QuestionsFound(soup, QuestionsRefDiv(soup)) = <<>> THEN DefaultReferences
    ELSE QuestionsFound(soup, QuestionsRefDiv(soup))

Digits == {"0", "1", "2", "3", "4", "5", "6", "7", "8", "9"}

\* str(n) for a number of one digit
NumberString(n) == <<"0", "1", "2", "3", "4", "5", "6", "7", "8", "9">>[n + 1]

\* re.search(r'(\d+)\.', ref): a digit followed by a full stop
HasNumberDot(ref) ==
    \E i \in 1..(Len(ref) - 1) : Ch(ref, i) \in Digits /\ Ch(ref, i + 1) = "."

\* references_text.index(ref), counted from 0
IndexOf(refs, ref) == (CHOOSE i \in 1..Len(refs) :
                          refs[i] = ref /\ \A j \in 1..(i - 1) : refs[j] # ref) - 1

\* Lines 2364-2370: a reference that does not start with a digit and holds
\* no number followed by a full stop gets the number
\* len(references_text[:6]) - references_text.index(ref) + 1 before it.
NumberedReference(refs, ref, k) ==
    IF Ch(ref, 1) \in Digits \/ HasNumberDot(ref) THEN ref
    ELSE NumberString(Min2(Len(refs), 6) - IndexOf(refs, ref) + 1) \o ". " \o ref

\* Lines 2362-2378: the first six references, one line each while the
\* cursor is above 6.5in.
RECURSIVE QuestionsLines(_, _, _)
QuestionsLines(refs, k, ref_y) ==
    IF k > Len(refs) \/ k > 6 THEN <<>>
    ELSE IF ref_y < Inches100(650)
    THEN add_text_element("Questions", "reference", NumberedReference(refs, refs[k], k),
                          Inches100(75) + Inches100(10), ref_y,
                          Inches100(850) - Inches100(20), Inches100(40),
                          9, FALSE, "#e0f2fe", "LEFT")
         \o QuestionsLines(refs, k + 1, ref_y + Inches100(45))
    ELSE QuestionsLines(refs, k + 1, ref_y)

\* Lines 2354-2360: the header of the references.
QuestionsHeader ==
    add_text_element("Questions", "ref_header", "References:",
                     Inches100(75) + Inches100(10), Inches100(200),
                     Inches100(850) - Inches100(20), Inches100(35),
                     14, TRUE, "#ffffff", "LEFT")

\* Lines 2291-2380
QuestionsLayout(sd) ==
    QuestionsTitle(sd)
    \o QuestionsHeader
    \o QuestionsLines(QuestionsReferences(sd.soup), 1, Inches100(240))

(***************************************************************************)
(* The title slide and the Generic layout (lines 2382-2526)                *)
(***************************************************************************)

\* Lines 2383-2389: the title line both of them start with.
GenericTitle(by, sd) ==
    TitleElement(by, sd, Inches100(20), Inches100(60), 28, "#005088", "LEFT")

\* Lines 2397-2404: the first five paragraphs; acc = [y, els].
RECURSIVE TitleSlideParagraphs(_, _, _)
TitleSlideParagraphs(texts, k, acc) ==
    IF k > Len(texts) \/ k > 5 THEN acc
    ELSE IF texts[k] # "" /\ acc.y < max_y
    THEN TitleSlideParagraphs(texts, k + 1,
            [y   |-> acc.y + Inches100(40),
             els |-> acc.els \o add_text_element("TitleSlide", "paragraph", texts[k], left_margin,
                         acc.y, content_width, Inches100(30), 14, FALSE, "", "LEFT")])
    ELSE TitleSlideParagraphs(texts, k + 1, acc)

TitleSlideLayout(sd) ==
    TitleSlideParagraphs(CleanTexts(sd.soup, FindAllTag(sd.soup, <<>>, {"p"})), 1,
                         [y |-> Inches100(250), els |-> GenericTitle("TitleSlide", sd)]).els

\* Lines 2409-2422: the images, each centered, until the cursor passes
\* max_y - 3in; acc = [y, els].
RECURSIVE GenericImages(_, _, _)
GenericImages(images, k, acc) ==
    IF k > Len(images) \/ acc.y > max_y - Inches100(300) THEN acc
    ELSE With(images[k].path, LAMBDA img_path :
         With(get_image_size(ImageAt(img_path), Inches100(700), Inches100(400)), LAMBDA got :
            IF Exists(img_path) /\ ~got.raised /\ ImageAt(img_path).readable
            THEN GenericImages(images, k + 1,
                   [y   |-> acc.y + got.h + Inches100(20),
                    els |-> acc.els \o add_picture("Generic", "image", img_path,
                                (Inches100(1000) - got.w) \div 2, acc.y, got.w, got.h)])
            ELSE GenericImages(images, k + 1, acc)))

\* Lines 2447-2454
ParagraphFontSize(style) ==
    IF ~Contains(style, "font-size") THEN 11
    ELSE IF Contains(style, "0.9em") \/ Contains(style, "0.85em") THEN 10
    ELSE IF Contains(style, "0.75em") \/ Contains(style, "0.7em") THEN 9
    ELSE IF Contains(style, "0.65em") \/ Contains(style, "0.6em") THEN 8
    ELSE 11

\* Lines 2457-2463
ParagraphColor(style) ==
    IF ~Contains(style, "color:") THEN "#334155"
    ELSE IF Contains(style, "#005088") \/ Contains(style, "#005") THEN "#005088"
    ELSE IF Contains(style, "#ef4444") \/ Contains(style, "#ef4") THEN "#ef4444"
    ELSE IF Contains(style, "#64748b") THEN "#64748b"
    ELSE "#334155"

\* Lines 2426-2485: the first fifteen paragraphs; the loop breaks once the
\* cursor has passed max_y.  acc = [y, els].
RECURSIVE GenericParagraphs(_, _, _, _)
GenericParagraphs(sd, ps, k, acc) ==
    IF k > Len(ps) \/ k > 15 THEN acc
    ELSE With(NodeAt(sd.soup, ps[k]), LAMBDA elem :
         With(clean_text(get_text(elem)), LAMBDA text :
         With(Contains(elem.style, "text-align: center")
              \/ Contains(elem.style, "text-align:center"), LAMBDA center :
            IF text = "" \/ text = sd.title \/ Len(text) < 3
            THEN GenericParagraphs(sd, ps, k + 1, acc)
            ELSE IF Len(text) < 50 /\ (Contains(Lower(text), "png") \/ Contains(Lower(text), "jpg"))
            THEN GenericParagraphs(sd, ps, k + 1, acc)
            ELSE IF acc.y > max_y THEN acc
            ELSE GenericParagraphs(sd, ps, k + 1,
                   [y   |-> acc.y + Inches100(30) + Inches100(10),
                    els |-> acc.els \o add_text_element("Generic", "paragraph", text,
                                IF center THEN Inches100(100) ELSE left_margin, acc.y,
                                IF center THEN Inches100(800) ELSE content_width, Inches100(30),
                                ParagraphFontSize(elem.style),
                                FindAllTag(sd.soup, ps[k], {"strong"}) # <<>>
                                    \/ Contains(Serialize(elem), "<strong>"),
                                ParagraphColor(elem.style),
                                IF center THEN "CENTER" ELSE "LEFT")]))))

\* The headings without the limit of five.
RECURSIVE GenericHeadings_All(_, _, _, _)
GenericHeadings_All(sd, texts, k, acc) ==
    IF k > Len(texts) THEN acc
    ELSE IF texts[k] = "" \/ texts[k] = sd.title \/ acc.y > max_y
    THEN GenericHeadings_All(sd, texts, k + 1, acc)
    ELSE GenericHeadings_All(sd, texts, k + 1,
            [y   |-> acc.y + Inches100(40),
             els |-> acc.els \o add_text_element("Generic", "heading", texts[k], left_margin, acc.y,
                         content_width, Inches100(35), 16, TRUE, "#005088", "LEFT")])

\* Lines 2488-2499: the first five h3/h4 headings.
RECURSIVE GenericHeadings(_, _, _, _)
GenericHeadings(sd, texts, k, acc) ==
    IF k > Len(texts) \/ k > 5 THEN acc
    ELSE IF texts[k] = "" \/ texts[k] = sd.title \/ acc.y > max_y
    THEN GenericHeadings(sd, texts, k + 1, acc)
    ELSE GenericHeadings(sd, texts, k + 1,
            [y   |-> acc.y + Inches100(40),
             els |-> acc.els \o add_text_element("Generic", "heading", texts[k], left_margin, acc.y,
                         content_width, Inches100(35), 16, TRUE, "#005088", "LEFT")])

\* Lines 2505-2515: the first six direct items of one list; the loop breaks
\* at an empty item or once the cursor has passed max_y.
RECURSIVE GenericListItems(_, _, _)
GenericListItems(texts, k, acc) ==
    IF k > Len(texts) \/ k > 6 THEN acc
    ELSE IF texts[k] = "" \/ acc.y > max_y THEN acc
    ELSE GenericListItems(texts, k + 1,
            [y   |-> acc.y + Inches100(30),
             els |-> acc.els \o add_text_element("Generic", "list_item", Bullet \o texts[k],
                         left_margin + Inches100(20), acc.y,
                         content_width - Inches100(20), Inches100(25), 10, FALSE, "", "LEFT")])

\* Lines 2502-2515: the first three lists.
RECURSIVE GenericLists(_, _, _, _)
GenericLists(soup, lists, k, acc) ==
    IF k > Len(lists) \/ k > 3 THEN acc
    ELSE GenericLists(soup, lists, k + 1,
            GenericListItems(
                CleanTexts(soup, SelectPaths(Children(soup, lists[k]), soup,
                                             LAMBDA n : n.tag = "li")), 1, acc))

\* Lines 2518-2526: the first two card-like regions.
RECURSIVE GenericCards(_, _, _)
GenericCards(texts, k, acc) ==
    IF k > Len(texts) \/ k > 2 THEN acc
    ELSE IF texts[k] # "" /\ acc.y < max_y /\ Len(texts[k]) > 10
    THEN GenericCards(texts, k + 1,
            [y   |-> acc.y + Inches100(60),
             els |-> acc.els \o add_text_element("Generic", "card", texts[k], left_margin, acc.y,
                         content_width, Inches100(50), 10, FALSE, "", "LEFT")])
    ELSE GenericCards(texts, k + 1, acc)

\* Each part starts from the cursor and the shapes the part before it left.
GenericLayout(sd) ==
    GenericCards(
        CleanTexts(sd.soup, FindAllClass(sd.soup, <<>>,
                       {"card", "bg-light", "callout-box", "story-highlight"})), 1,
        GenericLists(sd.soup, FindAllTag(sd.soup, <<>>, {"ul", "ol"}), 1,
            GenericHeadings(sd, CleanTexts(sd.soup, FindAllTag(sd.soup, <<>>, {"h3", "h4"})), 1,
                GenericParagraphs(sd, FindAllTag(sd.soup, <<>>, {"p"}), 1,
                    GenericImages(sd.images, 1,
                        [y   |-> IF sd.title # "" THEN Inches100(100) ELSE Inches100(120),
                         els |-> GenericTitle("Generic", sd)]))))).els

(***************************************************************************)
(* process_slide_content (lines 183-2526): the choice of the layout        *)
(***************************************************************************)

\* Lines 192-207: the sixteen flags, by the name of the layout each selects.
TitleHas(sd, words) == sd.title # "" /\ \E w \in words : Contains(sd.title, w)

Flag(name, sd) ==
    CASE name = "TitleSlide"       -> TitleHas(sd, {"Comparative Analysis"})
      [] name = "Hook"             -> Contains(Serialize(sd.soup), "537 Million") \/ TitleHas(sd, {"537"})
      [] name = "Mission"          -> TitleHas(sd, {"Mission"})
      [] name = "OurData"          -> TitleHas(sd, {"Our Data", "Pima Indians"})
      [] name = "ClassImbalance"   -> TitleHas(sd, {"Class Imbalance", "Red Flag"})
      [] name = "Preprocessing"    -> TitleHas(sd, {"Preparing for Battle", "Data Preprocessing"})
      [] name = "DataViz"          -> TitleHas(sd, {"Data Visualization"})
      [] name = "Correlations"     -> TitleHas(sd, {"Key Correlations"})
      [] name = "PCA"              -> TitleHas(sd, {"Principal Component Analysis"})
      [] name = "ModelPerformance" -> TitleHas(sd, {"Moment of Truth"})
      [] name = "LdaVsQda"         -> TitleHas(sd, {"LDA vs QDA", "Detailed Results"})
      [] name = "BlindSpot"        -> TitleHas(sd, {"Critical Blind Spot"})
      [] name = "PlotTwist"        -> TitleHas(sd, {"Plot Twist"})
      [] name = "Dashboard"        -> TitleHas(sd, {"Interactive Dashboard"})
      [] name = "Learned"          -> TitleHas(sd, {"What We Learned", "Journey's End"})
      [] name = "Questions"        -> TitleHas(sd, {"Questions"})

\* The background a layout paints over the slide's own (lines 1591-1595 and
\* 2293-2297); KeepBackground when it paints none.
KeepBackground == "keep"

\* The chain of if-blocks, each ending in return, and the Generic layout
\* after the last of them.  The result names the layout that ran.
Ran(name, els, background) == [ran |-> <<name>>, els |-> els, background |-> background]

\* Lines 326-2526: the blocks after the Mission block.
AfterMissionBlock(sd) ==
    IF Flag("Hook", sd)                  THEN Ran("Hook", HookLayout(sd), KeepBackground)
    ELSE IF Flag("OurData", sd)          THEN Ran("OurData", OurDataLayout(sd), KeepBackground)
    ELSE IF Flag("ClassImbalance", sd)   THEN Ran("ClassImbalance", ClassImbalanceLayout(sd), KeepBackground)
    ELSE IF Flag("Preprocessing", sd)    THEN Ran("Preprocessing", PreprocessingLayout(sd), KeepBackground)
    ELSE IF Flag("DataViz", sd)          THEN Ran("DataViz", DataVizLayout(sd), KeepBackground)
    ELSE IF Flag("Correlations", sd)     THEN Ran("Correlations", CorrelationsLayout(sd), KeepBackground)
    ELSE IF Flag("PCA", sd)              THEN Ran("PCA", PcaLayout(sd), KeepBackground)
    ELSE IF Flag("ModelPerformance", sd) THEN Ran("ModelPerformance", ModelPerformanceLayout(sd), KeepBackground)
    ELSE IF Flag("LdaVsQda", sd)         THEN Ran("LdaVsQda", LdaVsQdaLayout(sd), KeepBackground)
    ELSE IF Flag("BlindSpot", sd)        THEN Ran("BlindSpot", BlindSpotLayout(sd), "#fef2f2")
    ELSE IF Flag("PlotTwist", sd)        THEN Ran("PlotTwist", PlotTwistLayout(sd), KeepBackground)
    ELSE IF Flag("Dashboard", sd)        THEN Ran("Dashboard", DashboardLayout(sd), KeepBackground)
    ELSE IF Flag("Learned", sd)          THEN Ran("Learned", LearnedLayout(sd), KeepBackground)
    ELSE IF Flag("Questions", sd)        THEN Ran("Questions", QuestionsLayout(sd), "#005088")
    ELSE IF Flag("TitleSlide", sd)       THEN Ran("TitleSlide", TitleSlideLayout(sd), KeepBackground)
    ELSE Ran("Generic", GenericLayout(sd), KeepBackground)

\* The Mission block without its return: the blocks after it run as well.
process_slide_content_NoReturn(sd) ==
    IF Flag("Mission", sd) /\ sd.images # <<>>
    THEN With(AfterMissionBlock(sd), LAMBDA rest :
            [ran |-> <<"Mission">> \o rest.ran, els |-> MissionLayout(sd) \o rest.els,
             background |-> rest.background])
    ELSE AfterMissionBlock(sd)

\* The Mission block guarded by a second image.
process_slide_content_TwoImages(sd) ==
    IF Flag("Mission", sd) /\ Len(sd.images) > 1
    THEN Ran("Mission", MissionLayout(sd), KeepBackground)
    ELSE AfterMissionBlock(sd)

\* The shapes of a second run laid out in the reverse order.
RECURSIVE Reverse(_)
Reverse(q) == IF q = <<>> THEN <<>> ELSE Append(Reverse(Tail(q)), Head(q))

process_slide_content_RunDependent(sd) ==
    With(IF Flag("Mission", sd) /\ sd.images # <<>>
         THEN Ran("Mission", MissionLayout(sd), KeepBackground)
         ELSE AfterMissionBlock(sd),
         LAMBDA out : IF arg = "again" THEN [out EXCEPT !.els = Reverse(out.els)] ELSE out)

\* Line 210: the Mission block runs for a Mission title with an image.
process_slide_content(sd) ==
    IF Flag("Mission", sd) /\ sd.images # <<>>
    THEN Ran("Mission", MissionLayout(sd), KeepBackground)
    ELSE AfterMissionBlock(sd)

(***************************************************************************)
(* create_pptx_from_slides (lines 2528-2563)                               *)
(***************************************************************************)

HexDigits == "0123456789abcdef"

HexDigit(c) ==
    IF \E i \in 1..16 : Ch(HexDigits, i) = LowerCh(c)
    THEN (CHOOSE i \in 1..16 : Ch(HexDigits, i) = LowerCh(c)) - 1
    ELSE -1

\* int(hex_color[i:i+2], 16) for a two-digit slice; -1 when int() raises.
HexPair(s, i) ==
    IF Len(s) < i + 1 \/ HexDigit(Ch(s, i)) < 0 \/ HexDigit(Ch(s, i + 1)) < 0 THEN -1
    ELSE 16 * HexDigit(Ch(s, i)) + HexDigit(Ch(s, i + 1))

RECURSIVE LStripHash(_)
LStripHash(s) == IF s # "" /\ Ch(s, 1) = "#" THEN LStripHash(SubSeq(s, 2, Len(s))) ELSE s

White == <<255, 255, 255>>

\* hex_to_rgb, lines 17-27
hex_to_rgb(hex_color) ==
    IF hex_color = "" \/ hex_color = "none" THEN White
    ELSE With(LStripHash(hex_color), LAMBDA h :
         With(IF Len(h) = 3
              THEN Ch(h, 1) \o Ch(h, 1) \o Ch(h, 2) \o Ch(h, 2) \o Ch(h, 3) \o Ch(h, 3)
              ELSE h, LAMBDA x :
         With(<<HexPair(x, 1), HexPair(x, 3), HexPair(x, 5)>>, LAMBDA rgb :
            IF rgb[1] < 0 \/ rgb[2] < 0 \/ rgb[3] < 0 THEN White ELSE rgb)))

\* A slide of the blank layout has no fill.
NoFill == <<>>

\* Lines 2546-2554: the background of the new slide.
InitialBackground(sd) ==
    IF sd.background_color # "" THEN hex_to_rgb(sd.background_color) ELSE NoFill

Painted(before, background) ==
    IF background = KeepBackground THEN before ELSE hex_to_rgb(background)

\* The slide of a layout whose cursor starts where the slides before it
\* ended, 0.2in lower for every slide already in the deck.
SlideOf_CarriedCursor(sd) ==
    With(process_slide_content(sd), LAMBDA out :
        [background |-> Painted(InitialBackground(sd), out.background),
         els |-> [k \in 1..Len(out.els) |->
                    [out.els[k] EXCEPT !.top = @ + Len(deck) * Inches100(20)]],
         ran |-> out.ran, raised |-> FALSE, added |-> Len(out.els)])

\* Lines 2543-2558 when process_slide_content returns: the slide added for
\* one slide_data.  added counts the shapes the layout had added to the slide
\* when it returned or raised.
SlideOf(sd) ==
    With(process_slide_content(sd), LAMBDA out :
        [background |-> Painted(InitialBackground(sd), out.background),
         els |-> out.els, ran |-> out.ran, raised |-> FALSE,
         added |-> Len(out.els)])

\* The exception of a layout not caught in the loop: it reaches the handler
\* of main (lines 2591-2594) and the run ends.
AfterLayoutException_Propagates(at) == "done"

\* Lines 2557-2560: the exception of a layout is caught inside the loop,
\* which goes on with the next Section.
AfterLayoutException(at) == at

\* Lines 2559-2560: the handler prints a warning; the slide stays as the
\* layout left it.
SlideAfterException_Cleared(partial) == [partial EXCEPT !.els = <<>>]

SlideAfterException(partial) == partial

\* Lines 2543-2560 when the (k+1)-th shape the layout adds is a text box whose
\* creation raises: the first k shapes are on the slide.  (A picture that
\* cannot be added is skipped inside the layout and raises nothing.)
SlideOfRaising(sd, k) ==
    With(process_slide_content(sd), LAMBDA out :
        SlideAfterException(
            [background |-> Painted(InitialBackground(sd), out.background),
             els |-> SubSeq(out.els, 1, k), ran |-> out.ran, raised |-> TRUE,
             added |-> k]))

NotSaved == [written |-> FALSE, slides |-> <<>>]

\* The numbers of shapes after which the next shape added is a text box.
RaisePoints(sd) ==
    With(process_slide_content(sd).els,
         LAMBDA els : {k \in 0..(Len(els) - 1) : els[k + 1].kind = "text"})

(***************************************************************************)
(* SpecImage: get_image_size applied to every image and box of the bounds  *)
(***************************************************************************)

\* Largest pixel width and height of the images tried.
MaxPixels == 6

\* DPI metadata tried: absent, zero, and densities at which images of a few
\* pixels are several inches wide.
DpiValues == {NoDpi, 0, 1, 2}

ImageInputs ==
    [readable : BOOLEAN, pw : 0..MaxPixels, ph : 0..MaxPixels, dpi : DpiValues,
     lw : BOOLEAN, lh : BOOLEAN]

\* The boxes the callers pass (default 8x5; Generic 7x4; Mission 4x5.5;
\* Class Imbalance 5x5; Data Visualization 7.5x3.5; PCA 5x4.5), in EMU.
CallerBoxes ==
    { [w |-> Inches100(800), h |-> Inches100(500)],
      [w |-> Inches100(700), h |-> Inches100(400)],
      [w |-> Inches100(400), h |-> Inches100(550)],
      [w |-> Inches100(500), h |-> Inches100(500)],
      [w |-> Inches100(750), h |-> Inches100(350)],
      [w |-> Inches100(500), h |-> Inches100(450)] }

NoSize == [raised |-> FALSE, w |-> 0, h |-> 0]

InitImage ==
    /\ pc = "image_call"
    /\ img \in ImageInputs
    /\ box \in CallerBoxes
    /\ size = NoSize
    /\ doc = <<>> /\ slides = <<>> /\ deck = <<>> /\ saved = NotSaved
    /\ handles = 0 /\ tmp = {} /\ arg = "" /\ ret = ""

CallGetImageSize ==
    /\ pc = "image_call"
    /\ size' = get_image_size(img, box.w, box.h)
    /\ pc' = "image_done"
    /\ UNCHANGED <<tmp, img, box, doc, slides, deck, saved, handles, arg, ret>>

NextImage == CallGetImageSize

SpecImage == InitImage /\ [][NextImage]_vars

(***************************************************************************)
(* The run: parse_html_slides, then create_pptx_from_slides (main, lines   *)
(* 2577-2587)                                                              *)
(***************************************************************************)

\* Lines 2579: slides = parse_html_slides(html_file)
Parse ==
    /\ pc = "parse"
    /\ slides' = parse_html_slides(doc)
    /\ pc' = "assemble"
    /\ UNCHANGED <<tmp, doc, deck, saved, img, box, size, handles, arg, ret>>

\* One pass of the loop of lines 2536-2560 in which process_slide_content
\* returns.
ProcessSlide ==
    /\ pc = "assemble"
    /\ Len(deck) < Len(slides)
    /\ deck' = Append(deck, SlideOf(slides[Len(deck) + 1]))
    /\ UNCHANGED <<tmp, pc, doc, slides, saved, img, box, size, handles, arg, ret>>

\* One pass of the loop in which process_slide_content raises after adding
\* k shapes.
ProcessSlideRaises ==
    /\ pc = "assemble"
    /\ Len(deck) < Len(slides)
    /\ \E k \in RaisePoints(slides[Len(deck) + 1]) :
          deck' = Append(deck, SlideOfRaising(slides[Len(deck) + 1], k))
    /\ pc' = AfterLayoutException(pc)
    /\ UNCHANGED <<tmp, doc, slides, saved, img, box, size, handles, arg, ret>>

\* Line 2562: prs.save(output_file)
Save ==
    /\ pc = "assemble"
    /\ Len(deck) = Len(slides)
    /\ saved' = [written |-> TRUE, slides |-> deck]
    /\ pc' = "done"
    /\ UNCHANGED <<tmp, doc, slides, deck, img, box, size, handles, arg, ret>>

Next == Parse \/ ProcessSlide \/ ProcessSlideRaises \/ Save

(***************************************************************************)
(* Input documents                                                         *)
(***************************************************************************)

\* <section data-background-color=bg> heading, body, images </section>
Section(headTag, title, bg, body, images) ==
    [Node("section", <<>>, "", (IF headTag = "" THEN <<>> ELSE <<Leaf(headTag, <<>>, title)>>)
                               \o body \o images)
     EXCEPT !.bg = bg]

P(s) == Leaf("p", <<>>, s)

\* The card of the Mission slide that holds The Challenge.
ChallengeCard ==
    Node("div", <<"card">>, "", <<Leaf("h4", <<"text-primary">>, "The Challenge"),
                                  P("Diabetes harms  quietly.")>>)

\* The two steps of the Data Preprocessing slide.
Step1Box ==
    Node("div", <<"bg-light">>, "", <<Leaf("h4", <<>>, "Step 1"),
                                      P("Zeros became NA before any other step.")>>)

Step2Box ==
    Node("div", <<"bg-light">>, "", <<Leaf("h4", <<>>, "Step 2"),
                                      P("Training and Testing sets, stratified.")>>)

\* The sections of the documents of Spec: a Mission slide with its image, the
\* hook slide, a slide whose image cannot be resolved, a section without a
\* heading, the closing slide.
DeckSections ==
    { Section("h2", "Our Mission", "", <<ChallengeCard, P("A silent killer spreads.")>>,
              <<ImgTag("images/chart.png", "chart")>>),
      Section("h1", "537 Million", "#fff", <<P("People worldwide live with diabetes")>>, <<>>),
      Section("h2", "Findings", "#fef2f2", <<P("Results are <mixed>.")>>,
              <<ImgTag("images/gone.png", "")>>),
      Section("", "", "#005", <<P("Thank you.")>>, <<>>),
      Section("h2", "Questions", "", <<>>, <<>>) }

\* The most sections a document of Spec has.
MaxSlides == 2

RECURSIVE SeqsUpTo(_, _)
SeqsUpTo(S, n) ==
    IF n = 0 THEN {<<>>}
    ELSE LET shorter == SeqsUpTo(S, n - 1)
         IN  shorter \cup {Append(q, x) : q \in {r \in shorter : Len(r) = n - 1}, x \in S}

InitRun(documents) ==
    /\ pc = "parse"
    /\ doc \in documents
    /\ slides = <<>> /\ deck = <<>> /\ saved = NotSaved
    /\ img = ImageFile(FALSE, 0, 0, NoDpi)
    /\ box = [w |-> 0, h |-> 0]
    /\ size = NoSize
    /\ handles = 0 /\ tmp = {} /\ arg = "" /\ ret = ""

Init == InitRun(SeqsUpTo(DeckSections, MaxSlides))

Spec == Init /\ [][Next]_vars

(***************************************************************************)
(* SpecClassify: documents of one section, over the titles the flags test  *)
(***************************************************************************)

\* One title per keyword of lines 192-207, titles no flag accepts, and titles
\* that several flags accept.
ClassifyTitles ==
    { "Findings", "Our Mission", "537 Ways", "Our Data", "Pima Indians Set",
      "Class Imbalance", "Red Flag", "Preparing for Battle", "Data Preprocessing",
      "Data Visualization", "Key Correlations", "Principal Component Analysis",
      "Moment of Truth", "LDA vs QDA", "Detailed Results", "Critical Blind Spot",
      "Plot Twist", "Interactive Dashboard", "What We Learned", "Journey's End",
      "Questions", "Comparative Analysis",
      "Mission: 537 Questions", "Our Data Visualization", "Plot Twist: LDA vs QDA",
      "Comparative Analysis Questions", "Red Flag Mission", "mission" }

ClassifyBodies == { <<>>, <<P("Results are mixed.")>>, <<P("537 Million people")>> }

ClassifyImages ==
    { <<>>, <<ImgTag("images/chart.png", "chart")>>, <<ImgTag("images/gone.png", "")>>,
      <<ImgTag("images/tall.png", ""), ImgTag("images/gone.png", ""),
        ImgTag("images/chart.png", "chart")>> }

ClassifySections ==
    { Section("h2", title, "", body, images) :
        title \in ClassifyTitles, body \in ClassifyBodies, images \in ClassifyImages }
    \cup { Section("", "", "", body, images) :
             body \in ClassifyBodies, images \in ClassifyImages }

InitClassify == InitRun({<<section>> : section \in ClassifySections})

SpecClassify == InitClassify /\ [][Next]_vars

(***************************************************************************)
(* SpecExtract: one section of the Mission, Class Imbalance or Data        *)
(* Preprocessing layout, over bodies of up to MaxBlocks blocks             *)
(***************************************************************************)

\* The most blocks (cards, boxes, paragraphs) the body of a section has.
MaxBlocks == 2

ExtractBlocks ==
    { ChallengeCard, Step1Box, Step2Box,
      P("A silent killer spreads."), P("Irreversible damage follows."),
      P("Which model wins, LDA or QDA?"),
      P("Median values fill the gaps."), P("Impossible zero readings were dropped."),
      P("The first challenge: a 2:1 imbalance."), P("Results are mixed.") }

ExtractSections ==
    { Section("h2", title, "", body, <<ImgTag("images/chart.png", "chart")>>) :
        title \in {"Our Mission", "Class Imbalance", "Data Preprocessing"},
        body \in SeqsUpTo(ExtractBlocks, MaxBlocks) }

InitExtract == InitRun({<<section>> : section \in ExtractSections})

SpecExtract == InitExtract /\ [][Next]_vars

(***************************************************************************)
(* Properties of the run (Spec)                                            *)
(***************************************************************************)

\* C1: the deck has exactly one slide per Section, in document order, under
\* every combination of layouts that raise: every step leaves the slides
\* already in the deck where they are and adds at most one, slide i is the
\* one made for Section i, and the saved deck has as many slides as the
\* document has Sections.
C1_OneSlidePerSection ==
    /\ [](/\ Len(deck) <= Len(doc)
          /\ pc \in {"assemble", "done"} => Len(slides) = Len(doc)
          /\ \A i \in 1..Len(deck) :
                /\ deck[i].ran = process_slide_content(SlideData(doc[i])).ran
                /\ deck[i].background = SlideOf(SlideData(doc[i])).background
          /\ pc = "done" => Len(saved.slides) = Len(doc) /\ saved.slides = deck)
    /\ [][deck' = deck \/ (Len(deck') = Len(deck) + 1 /\ SubSeq(deck', 1, Len(deck)) = deck)]_vars

\* A document of MaxSlides sections was saved after every layout raised.
C1_Witness ==
    /\ pc = "done" /\ Len(doc) = MaxSlides /\ Len(saved.slides) = MaxSlides
    /\ \A i \in 1..Len(deck) : deck[i].raised
    /\ deck[1].ran # deck[2].ran

\* C2: when process_slide_content raises part-way, the slide keeps exactly
\* the shapes added before the failure, in their order; no later step
\* changes a slide already in the deck; and the run ends only with the deck
\* saved, holding a slide for every Section, those of the failed layouts
\* included.
C2_PartialSlideKept ==
    /\ [](\A i \in 1..Len(deck) :
            /\ deck[i].raised => deck[i].added \in RaisePoints(slides[i])
            /\ deck[i].els
                  = SubSeq(process_slide_content(slides[i]).els, 1, deck[i].added))
    /\ [](pc = "done" => saved.written /\ saved.slides = deck /\ Len(deck) = Len(slides))
    /\ [][\A i \in 1..Len(deck) : i <= Len(deck') /\ deck'[i] = deck[i]]_vars

\* A layout raised after it had added shapes, the next Section was laid out
\* in full, and the deck was saved with both slides.
C2_Witness ==
    /\ pc = "done" /\ saved.written /\ Len(saved.slides) = 2
    /\ saved.slides[1].raised /\ saved.slides[1].els # <<>>
    /\ ~saved.slides[2].raised /\ saved.slides[2].els # <<>>

(***************************************************************************)
(* Properties of get_image_size (SpecImage)                                *)
(***************************************************************************)

\* The try body ran to its return statement.
ImageComputed == img.readable /\ img.ph # 0 /\ EffectiveDpi(img) # 0

\* C3: for every readable image and every box, the returned size fits the
\* box: w <= boxWidth and h <= boxHeight.
C3_FitsBox ==
    (pc = "image_done" /\ ImageComputed) => (size.w <= box.w /\ size.h <= box.h)

\* C4: the returned size has the image's pixel aspect ratio, w / h =
\* pixelWidth / pixelHeight, up to the rounding of w and h to whole EMU
\* (each is cut by at most one EMU, so w*ph and h*pw differ by at most the
\* larger pixel dimension), on all three branches.
C4_AspectPreserved ==
    (pc = "image_done" /\ ImageComputed) =>
        Abs(size.w * img.ph - size.h * img.pw) <= Max2(img.pw, img.ph)

\* A portrait image larger than its box was scaled on the portrait branch,
\* its width a whole number of EMU that the float arithmetic fell below.
C4_Witness ==
    /\ pc = "image_done" /\ ImageComputed
    /\ img.pw < img.ph /\ img.pw > 0
    /\ size.h = box.h /\ size.w < box.w
    /\ img.ph * EMU_PER_INCH > box.h * EffectiveDpi(img)
    /\ img.lw /\ (box.h * img.pw) % img.ph = 0

\* C5: an image that cannot be opened, or whose pixel height or DPI is zero,
\* yields the default 6in x 4in and no exception reaches the caller.
C5_DefaultOnFailure ==
    (pc = "image_done" /\ ~ImageComputed) =>
        (~size.raised /\ size.w = Inches100(600) /\ size.h = Inches100(400))

\* A readable image with zero DPI metadata got the default size.
C5_Witness ==
    /\ pc = "image_done" /\ img.readable /\ img.ph > 0 /\ img.dpi = 0
    /\ size = DefaultImageSize


(***************************************************************************)
(* Properties of the choice of the layout (SpecClassify)                   *)
(***************************************************************************)

\* The layouts in the order the blocks of process_slide_content stand in.
TemplateOrder ==
    << "Mission", "Hook", "OurData", "ClassImbalance", "Preprocessing", "DataViz",
       "Correlations", "PCA", "ModelPerformance", "LdaVsQda", "BlindSpot", "PlotTwist",
       "Dashboard", "Learned", "Questions", "TitleSlide" >>

\* The first layout of the order whose predicate holds, Generic if none does.
FirstOf(Holds(_)) ==
    IF \E i \in 1..Len(TemplateOrder) : Holds(TemplateOrder[i])
    THEN TemplateOrder[CHOOSE i \in 1..Len(TemplateOrder) :
                          /\ Holds(TemplateOrder[i])
                          /\ \A j \in 1..(i - 1) : ~Holds(TemplateOrder[j])]
    ELSE "Generic"

\* The slide was laid out by the layout name and by no other.
OnlyTemplate(slide, name) ==
    /\ slide.ran = <<name>>
    /\ \A k \in 1..Len(slide.els) : slide.els[k].by = name

OtherImageLists ==
    { <<>>,
      <<[path |-> "/w/images/chart.png", alt |-> "chart", style |-> ""]>>,
      <<[path |-> "/w/images/chart.png", alt |-> "chart", style |-> ""],
        [path |-> "/w/images/tall.png", alt |-> "", style |-> ""]>> }

Regions(slide) == {slide.els[k].region : k \in 1..Len(slide.els)}

\* The text of the shape of a region ("" when the slide has none).
TextOf(slide, region) ==
    IF region \in Regions(slide)
    THEN slide.els[CHOOSE k \in 1..Len(slide.els) : slide.els[k].region = region].text
    ELSE ""

\* The cleaned texts of all paragraphs, which the keyword searches scan.
ParagraphTexts(sd) == CleanTexts(sd.soup, FindAllTag(sd.soup, <<>>, {"p"}))

\* What the structured lookups of the Mission layout find (lines 233-258).
MissionFound(sd) ==
    [challenge |-> MissionStructured(sd.soup, First(FindAllTagClass(sd.soup, <<>>, {"h4"}, "text-primary"))),
     quest     |-> MissionStructured(sd.soup, First(FindAllTagClass(sd.soup, <<>>, {"h4"}, "text-accent")))]

\* C8: on a slide laid out in full, every extraction region is written, with
\* its default when neither the structured lookup nor the keyword search
\* found a text: the Challenge and Quest texts of the Mission slide, the two
\* step texts of the Preprocessing slide, the numbers and the warning of
\* the Class Imbalance slide.
C8_RegionNeverOmitted ==
    \A i \in 1..Len(deck) :
        ~deck[i].raised =>
            /\ deck[i].ran = <<"Mission">> =>
                  {"challenge_text", "quest_text"} \subseteq Regions(deck[i])
            /\ deck[i].ran = <<"Preprocessing">> =>
                  {"step1_text", "step2_text"} \subseteq Regions(deck[i])
            /\ deck[i].ran = <<"ClassImbalance">> =>
                  {"numbers_detail", "warning_text"} \subseteq Regions(deck[i])

\* C9: a text the structured lookup found for a region is the text written
\* to the region, whatever the keyword search, run because another region
\* was not found, matches.
C9_StructuredTextStays ==
    \A i \in 1..Len(deck) :
        ~deck[i].raised =>
            /\ deck[i].ran = <<"Mission">> =>
                  /\ MissionFound(slides[i]).challenge # "" =>
                        TextOf(deck[i], "challenge_text")
                            = clean_text(MissionFound(slides[i]).challenge)
                  /\ MissionFound(slides[i]).quest # "" =>
                        TextOf(deck[i], "quest_text") = clean_text(MissionFound(slides[i]).quest)
            /\ deck[i].ran = <<"Preprocessing">> =>
                  /\ PreprocessingStructured(slides[i].soup).step1_text # "" =>
                        TextOf(deck[i], "step1_text")
                            = clean_text(PreprocessingStructured(slides[i].soup).step1_text)
                  /\ PreprocessingStructured(slides[i].soup).step2_text # "" =>
                        TextOf(deck[i], "step2_text")
                            = clean_text(PreprocessingStructured(slides[i].soup).step2_text)

\* The first of the texts that Test accepts ("" when it accepts none).
FirstMatch(texts, Test(_)) ==
    IF SelectSeq(texts, Test) = <<>> THEN "" ELSE Head(SelectSeq(texts, Test))

\* C10: where the keyword search supplies the text of a region (the
\* structured lookup found none), the text written is that of the first
\* paragraph, in document order, that matches the region's keywords.
C10_FirstMatchingParagraph ==
    \A i \in 1..Len(deck) :
        ~deck[i].raised =>
            /\ (/\ deck[i].ran = <<"Mission">>
                /\ MissionFound(slides[i]).challenge = ""
                /\ FirstMatch(ParagraphTexts(slides[i]), MissionIsChallenge) # "") =>
                  TextOf(deck[i], "challenge_text")
                      = clean_text(FirstMatch(ParagraphTexts(slides[i]), MissionIsChallenge))
            /\ (/\ deck[i].ran = <<"Preprocessing">>
                /\ PreprocessingStructured(slides[i].soup).step1_text = ""
                /\ FirstMatch(ParagraphTexts(slides[i]), FallbackIsStep1) # "") =>
                  TextOf(deck[i], "step1_text")
                      = clean_text(FirstMatch(ParagraphTexts(slides[i]), FallbackIsStep1))
            /\ (/\ deck[i].ran = <<"ClassImbalance">>
                /\ WarningStructured(slides[i].soup) = ""
                /\ FirstMatch(ParagraphTexts(slides[i]), WarningMatches) # "") =>
                  TextOf(deck[i], "warning_text")
                      = clean_text(DropWarningPrefix(
                            FirstMatch(ParagraphTexts(slides[i]), WarningMatches)))

(***************************************************************************)
(* SpecClean: clean_text applied to every text of the bounds               *)
(***************************************************************************)

\* The longest text tried.
MaxText == 5

\* A letter, the space, the line break, a character of the class of line 36
\* (U+2020) and the no-break space, which is both in the class and
\* whitespace.
CleanAlphabet == {"a", " ", "\n", "+", "_"}

RECURSIVE TextsUpTo(_)
TextsUpTo(n) ==
    IF n = 0 THEN {""}
    ELSE TextsUpTo(n - 1)
         \cup {t \o c : t \in {u \in TextsUpTo(n - 1) : Len(u) = n - 1}, c \in CleanAlphabet}

InitClean ==
    /\ pc = "clean_call"
    /\ arg \in TextsUpTo(MaxText)
    /\ ret = ""
    /\ doc = <<>> /\ slides = <<>> /\ deck = <<>> /\ saved = NotSaved
    /\ img = ImageFile(FALSE, 0, 0, NoDpi) /\ box = [w |-> 0, h |-> 0]
    /\ size = NoSize /\ handles = 0 /\ tmp = {}

CallCleanText ==
    /\ pc = "clean_call"
    /\ ret' = clean_text(arg)
    /\ pc' = "clean_done"
    /\ UNCHANGED <<tmp, doc, slides, deck, saved, img, box, size, handles, arg>>

NextClean == CallCleanText

SpecClean == InitClean /\ [][NextClean]_vars

(***************************************************************************)
(* Properties of clean_text (SpecClean)                                    *)
(***************************************************************************)

\* C11: the result of clean_text has no two consecutive whitespace
\* characters, no whitespace at its start or its end, and no character of
\* the class of line 36.
C11_CleanTextNormalized ==
    pc = "clean_done" =>
        /\ \A i \in 1..(Len(ret) - 1) :
              ~(Ch(ret, i) \in Whitespace /\ Ch(ret, i + 1) \in Whitespace)
        /\ ret # "" => (Ch(ret, 1) \notin Whitespace /\ Ch(ret, Len(ret)) \notin Whitespace)
        /\ \A i \in 1..Len(ret) : Ch(ret, i) \notin Denylist

(***************************************************************************)
(* SpecResolve: the path of one <img> resolved on every file system of     *)
(* the bounds (find_images_in_section, lines 47-75)                        *)
(***************************************************************************)

\* The src attributes tried: with either prefix, absolute, relative, with a
\* sub-directory, with the prefix twice.
ResolveSources ==
    { "images/deep.png", "/images/deep.png", "/srv/abs.png", "deep.png",
      "sub/deep.png", "images/sub/deep.png", "images/images/deep.png" }

\* The files that may exist; every subset of them is a file system tried.
ResolveFiles ==
    { "/w/images/deep.png", "/w/images/images/deep.png", "/images/deep.png",
      "/srv/abs.png", "/w/images/sub/deep.png", "/w/images/abs.png" }

\* os.path.exists on the file system files.
ExistsIn(files, p) == AbsPath(p) \in files \/ AbsPath(p) \in Directories

\* The path of the entry appended for src (lines 67-69), "" when the
\* reference is dropped (line 75).
ResolvedPath(src, images_dir, files) ==
    With(ResolveImagePathIn(src, images_dir, LAMBDA p : ExistsIn(files, p)),
         LAMBDA img_path : IF src # "" /\ img_path # "" /\ ExistsIn(files, img_path)
                           THEN AbsPath(img_path) ELSE "")

InitResolve ==
    /\ pc = "resolve_call"
    /\ arg \in [src : ResolveSources, files : SUBSET ResolveFiles]
    /\ ret = ""
    /\ doc = <<>> /\ slides = <<>> /\ deck = <<>> /\ saved = NotSaved
    /\ img = ImageFile(FALSE, 0, 0, NoDpi) /\ box = [w |-> 0, h |-> 0]
    /\ size = NoSize /\ handles = 0 /\ tmp = {}

CallResolve ==
    /\ pc = "resolve_call"
    /\ ret' = ResolvedPath(arg.src, "images", arg.files)
    /\ pc' = "resolve_done"
    /\ UNCHANGED <<tmp, doc, slides, deck, saved, img, box, size, handles, arg>>

NextResolve == CallResolve

SpecResolve == InitResolve /\ [][NextResolve]_vars

(***************************************************************************)
(* Properties of the resolution of image paths (SpecResolve)               *)
(***************************************************************************)

\* The four candidates of the resolution order for src: the path with its
\* images/ or /images/ prefix rewritten under the asset root (none when it
\* has no such prefix), the path as it is, the path joined to the asset
\* root, its basename joined to the asset root.
Candidates(src, images_dir) ==
    (IF StartsWith(src, "images/")
     THEN <<PathJoin(images_dir, SubSeq(src, Len("images/") + 1, Len(src)))>>
     ELSE IF StartsWith(src, "/images/")
     THEN <<PathJoin(images_dir, SubSeq(src, Len("/images/") + 1, Len(src)))>>
     ELSE <<>>)
    \o <<src, images_dir \o "/" \o src, PathJoin(images_dir, Basename(src))>>

\* The first of the candidates that exists, "" when none does.
FirstExisting(candidates, files) ==
    IF \E i \in 1..Len(candidates) : ExistsIn(files, candidates[i])
    THEN AbsPath(candidates[CHOOSE i \in 1..Len(candidates) :
                               /\ ExistsIn(files, candidates[i])
                               /\ \A j \in 1..(i - 1) : ~ExistsIn(files, candidates[j])])
    ELSE ""

\* C12: the path of an <img> is resolved to the first existing file among
\* the four candidates, in their order, and the reference is dropped only
\* when none of them exists.
C12_FirstExistingCandidate ==
    pc = "resolve_done" => ret = FirstExisting(Candidates(arg.src, "images"), arg.files)

(***************************************************************************)
(* Properties of unresolved image references (SpecClassify)                *)
(***************************************************************************)

\* The src attributes of the <img> tags of a section, in document order.
ImageSources(section) ==
    With(FindAllTag(section, <<>>, {"img"}),
         LAMBDA imgTags : [k \in 1..Len(imgTags) |-> NodeAt(section, imgTags[k]).src])

\* The files, among those of the run's file system, that the references of
\* a section resolve to, in document order; the references with no existing
\* candidate left out.
ResolvedSources(section) ==
    SelectSeq([k \in 1..Len(ImageSources(section)) |->
                  FirstExisting(Candidates(ImageSources(section)[k], "images"),
                                DOMAIN ImageFiles)],
              LAMBDA path : path # "")

\* The paths of the pictures on a slide.
PicturePaths(slide) ==
    {slide.els[k].path : k \in {j \in 1..Len(slide.els) : slide.els[j].kind = "picture"}}

Card(header, items) ==
    Node("div", <<"card">>, "",
         (IF header = "" THEN <<>> ELSE <<Leaf("h4", <<>>, header)>>)
         \o (IF items = <<>> THEN <<>>
             ELSE <<Node("ul", <<>>, "", [k \in 1..Len(items) |-> Leaf("li", <<>>, items[k])])>>))

Link(href, s) == [Leaf("a", <<>>, s) EXCEPT !.href = href]

DashboardBlocks ==
    { P("See how class balance and SMOTE change the models."),
      Card("Controls", <<"Slider", "Toggle">>),
      Card("Try It", <<>>),
      Card("", <<>>),
      Leaf("div", <<"image-caption">>, "The dashboard"),
      Link("https://example.org/dashboard.html", "Open the dashboard") }

DashboardSections ==
    { Section("h2", "Interactive Dashboard: See It Live", "", body, images) :
        body \in SeqsUpTo(DashboardBlocks, MaxBlocks),
        images \in {<<>>, <<ImgTag("images/chart.png", "chart")>>} }

InitDashboard == InitRun({<<section>> : section \in DashboardSections})

SpecDashboard == InitDashboard /\ [][Next]_vars

(***************************************************************************)
(* Properties of the Dashboard layout (SpecDashboard)                      *)
(***************************************************************************)

\* The shapes of a slide that belong to the given regions, in their order.
ShapesOf(slide, regions) == SelectSeq(slide.els, LAMBDA e : e.region \in regions)

\* The texts of the shapes of a region, in their order.
TextsOf(slide, region) ==
    [k \in 1..Len(ShapesOf(slide, {region})) |-> ShapesOf(slide, {region})[k].text]

\* The bullet lines as the slide shows them: the bullet's first character is
\* of the class clean_text removes.
BulletLines(items) == [k \in 1..Len(items) |-> "=/ " \o items[k]]

\* The right column shows a header and four items, then a header and four
\* items.
EightBullets(slide) ==
    /\ [k \in 1..Len(ShapesOf(slide, {"features_header", "features_item",
                                      "explore_header", "explore_item"})) |->
            ShapesOf(slide, {"features_header", "features_item",
                             "explore_header", "explore_item"})[k].region]
         = << "features_header", "features_item", "features_item", "features_item",
              "features_item", "explore_header", "explore_item", "explore_item",
              "explore_item", "explore_item" >>
    /\ TextsOf(slide, "features_item") = BulletLines(FeaturesDefault)
    /\ TextsOf(slide, "explore_item") = BulletLines(ExploreDefault)

\* No card of the section has a list item.
NoCardItems(soup) ==
    \A k \in 1..Len(DashboardCards(soup)) :
        FindAllTag(soup, DashboardCards(soup)[k], {"li"}) = <<>>

\* No card of the section has a header.
NoCardHeaders(soup) ==
    \A k \in 1..Len(DashboardCards(soup)) :
        FindAllTag(soup, DashboardCards(soup)[k], {"h4"}) = <<>>

HookBlocks ==
    { P("People worldwide live with diabetes"), P("But here's the problem"),
      P("Many cases go undetected"), P("Source: IDF worldwide atlas"),
      P("Results are mixed.") }

HookSections ==
    { Section(headTag, title, "", body, <<>>) :
        headTag \in {"h1", "h2"}, title \in {"537 Million", "537 Million People"},
        body \in SeqsUpTo(HookBlocks, MaxBlocks) }

InitHook == InitRun({<<section>> : section \in HookSections})

SpecHook == InitHook /\ [][Next]_vars

(***************************************************************************)
(* Properties of the hook layout (SpecHook)                                *)
(***************************************************************************)

\* C15: a slide whose title contains "537 Million" and that has a paragraph
\* containing "worldwide" shows the centered text "537 Million" at 80pt
\* bold and another text containing "worldwide", whether its title is an
\* h1 or an h2.
C15_NumberAndWorldwide ==
    \A i \in 1..Len(deck) :
        (/\ ~deck[i].raised
         /\ Contains(slides[i].title, "537 Million")
         /\ \E k \in 1..Len(ParagraphTexts(slides[i])) :
               Contains(ParagraphTexts(slides[i])[k], "worldwide")) =>
            \E m, n \in 1..Len(deck[i].els) :
                /\ m # n
                /\ deck[i].els[m].text = "537 Million"
                /\ deck[i].els[m].font_size = 80 /\ deck[i].els[m].bold
                /\ deck[i].els[m].alignment = "CENTER"
                /\ Contains(deck[i].els[n].text, "worldwide")

(***************************************************************************)
(* SpecTwice: main run a second time on the same document and the same     *)
(* file system                                                             *)
(***************************************************************************)

\* The converter is started again: ret keeps the deck the first run saved,
\* arg marks the second run.
Rerun ==
    /\ pc = "done" /\ arg = ""
    /\ ret' = saved.slides
    /\ arg' = "again"
    /\ pc' = "parse"
    /\ slides' = <<>> /\ deck' = <<>> /\ saved' = NotSaved
    /\ UNCHANGED <<tmp, doc, img, box, size, handles>>

NextTwice == Parse \/ ProcessSlide \/ ProcessSlideRaises \/ Save \/ Rerun

\* The documents run twice: every section of DeckSections alone, and two
\* of them together.
TwiceDocuments ==
    {<<section>> : section \in DeckSections}
    \cup { << Section("h1", "537 Million", "#fff", <<P("People worldwide live with diabetes")>>, <<>>),
             Section("h2", "Our Mission", "", <<ChallengeCard, P("A silent killer spreads.")>>,
                     <<ImgTag("images/chart.png", "chart")>>) >> }

InitTwice == InitRun(TwiceDocuments)

SpecTwice == InitTwice /\ [][NextTwice]_vars

(***************************************************************************)
(* Properties of two runs (SpecTwice)                                      *)
(***************************************************************************)

\* a is the beginning of b.
IsPrefix(a, b) == Len(a) <= Len(b) /\ SubSeq(b, 1, Len(a)) = a

ManyParagraphs == 16

ManyHeadings == 6

ManyLists == 4

ManyItems == 7

ManyCards == 3

ManyImages == 16

Repeat(n, node) == [k \in 1..n |-> node]

\* The section with the given heading and numbers of blocks; every list has
\* ManyItems items.
BulkSection(c) ==
    Section(c.headTag, c.title, "",
            Repeat(c.paragraphs, P("People worldwide live with diabetes"))
            \o Repeat(c.headings, Leaf("h3", <<>>, "Method"))
            \o Repeat(c.lists, Node("ul", <<>>, "", Repeat(ManyItems, Leaf("li", <<>>, "An item"))))
            \o Repeat(c.cards, Leaf("div", <<"callout-box">>, "A callout region")),
            Repeat(c.images, ImgTag("images/dot.png", "")))

BulkInputs ==
    [headTag : {"h1"}, title : {"Findings", "537 Million"},
     paragraphs : {0, ManyParagraphs}, headings : {0, ManyHeadings},
     lists : {0, ManyLists}, cards : {0, ManyCards}, images : {0, ManyImages}]
    \cup [headTag : {""}, title : {""},
          paragraphs : {0, ManyParagraphs}, headings : {0, ManyHeadings},
          lists : {0, ManyLists}, cards : {0, ManyCards}, images : {0, ManyImages}]

InitBulk ==
    /\ pc = "layout_call"
    /\ arg \in BulkInputs
    /\ ret = [ran |-> <<>>, els |-> <<>>, background |-> KeepBackground]
    /\ doc = <<>> /\ slides = <<>> /\ deck = <<>> /\ saved = NotSaved
    /\ img = ImageFile(FALSE, 0, 0, NoDpi) /\ box = [w |-> 0, h |-> 0]
    /\ size = NoSize /\ handles = 0 /\ tmp = {}

\* Lines 2543-2558 for one section: its slide_data laid out on a new slide.
CallLayout ==
    /\ pc = "layout_call"
    /\ ret' = process_slide_content(SlideData(BulkSection(arg)))
    /\ pc' = "layout_done"
    /\ UNCHANGED <<tmp, doc, slides, deck, saved, img, box, size, handles, arg>>

NextBulk == CallLayout

SpecBulk == InitBulk /\ [][NextBulk]_vars

(***************************************************************************)
(* Properties of the cursor and of the limits (SpecBulk)                   *)
(***************************************************************************)

\* The height of the canvas, 7.5in.
CanvasHeight == Inches100(750)

\* C17: no shape is placed at a vertical position beyond the height of the
\* canvas, whatever the number of paragraphs of the Section.
C17_NothingBelowCanvas ==
    pc = "layout_done" =>
        \A k \in 1..Len(ret.els) : ret.els[k].top <= CanvasHeight

\* The number of shapes of a region.
CountOf(out, region) == Len(SelectSeq(out.els, LAMBDA e : e.region = region))

\* C18: the Generic layout emits at most 15 paragraphs, 5 sub-headings,
\* 3 x 6 list items, 2 callout regions and 15 images, so with the title at
\* most 56 shapes, however many of each the Section holds.
C18_GenericBounded ==
    (pc = "layout_done" /\ ret.ran = <<"Generic">>) =>
        /\ CountOf(ret, "paragraph") <= 15
        /\ CountOf(ret, "heading") <= 5
        /\ CountOf(ret, "list_item") <= 3 * 6
        /\ CountOf(ret, "card") <= 2
        /\ CountOf(ret, "image") <= 15
        /\ Len(ret.els) <= 1 + 15 + 5 + 3 * 6 + 2 + 15

\* A Section with more than five sub-headings, three lists and two callout
\* regions got five, the items of three lists of six, and two.
C18_Witness ==
    /\ pc = "layout_done" /\ ret.ran = <<"Generic">>
    /\ arg.headings > 5 /\ CountOf(ret, "heading") = 5
    /\ arg.lists > 3 /\ CountOf(ret, "list_item") > 6
    /\ arg.cards > 2 /\ CountOf(ret, "card") <= 2

(***************************************************************************)
(* Frame of the loop over the sections (Spec)                              *)
(***************************************************************************)

\* The slide is what the layout of the section makes of it on its own, from
\* the cursor and margins of lines 186-189: the shapes the layout adds for
\* the slide_data of the section, up to the number the slide got.
LaidOutAlone(slide, section) ==
    With(parse_html_slides(<<section>>)[1], LAMBDA sd :
        With(process_slide_content(sd), LAMBDA out :
            /\ slide.ran = out.ran
            /\ slide.added <= Len(out.els)
            /\ slide.els = SubSeq(out.els, 1, slide.added)
            /\ slide.background = Painted(InitialBackground(sd), out.background)))

\* C19: processing Section i only adds slide i: the document and, once
\* parsed, the slide_data of every Section stay as they are, the slides
\* already in the deck are not touched, and every slide is the one its
\* Section gets when laid out on its own from the initial cursor and
\* margins, whatever came before it.
C19_FrameOfSections ==
    /\ [][/\ doc' = doc
          /\ pc = "assemble" => slides' = slides
          /\ Len(deck') >= Len(deck)
          /\ SubSeq(deck', 1, Len(deck)) = deck]_vars
    /\ [](\A i \in 1..Len(deck) :
            /\ slides[i] = SlideData(doc[i])
            /\ LaidOutAlone(deck[i], doc[i]))

\* The same Section came twice; its first layout was stopped by an
\* exception, and the second, after it, ran in full from the same cursor.
C19_Witness ==
    /\ pc = "done" /\ Len(deck) = 2 /\ doc[1] = doc[2]
    /\ deck[1].raised /\ ~deck[2].raised
    /\ deck[1].added > 0 /\ deck[1].added < deck[2].added
    /\ deck[1].els = SubSeq(deck[2].els, 1, deck[1].added)

(***************************************************************************)
(* SpecHandles: calls of get_image_size one after another, the file each   *)
(* opens followed from Image.open to the end of the with block             *)
(***************************************************************************)

\* The most files the calls may have open at once before no further call is
\* made.
MaxOpen == 3

\* Files that open and files that do not, with and without a zero height or
\* a zero DPI.
HandleImages ==
    [readable : BOOLEAN, pw : {1, 4}, ph : {0, 3}, dpi : {NoDpi, 0, 1},
     lw : {FALSE}, lh : {FALSE}]

InitHandles ==
    /\ pc = "handle_idle"
    /\ img = ImageFile(FALSE, 0, 0, NoDpi)
    /\ box \in CallerBoxes
    /\ size = NoSize
    /\ handles = 0 /\ tmp = {}
    /\ doc = <<>> /\ slides = <<>> /\ deck = <<>> /\ saved = NotSaved
    /\ arg = "" /\ ret = ""

\* Line 82: Image.open succeeds; the body of the with block is entered with
\* the file open.
OpenImage ==
    /\ pc = "handle_idle"
    /\ handles < MaxOpen
    /\ \E image \in HandleImages : image.readable /\ img' = image
    /\ handles' = handles + 1
    /\ pc' = "handle_body"
    /\ UNCHANGED <<tmp, box, size, doc, slides, deck, saved, arg, ret>>

\* Line 82: Image.open raises, no file is left open, and the handler of
\* lines 115-118 returns the default size.
OpenImageFails ==
    /\ pc = "handle_idle"
    /\ \E image \in HandleImages :
          /\ ~image.readable
          /\ img' = image
          /\ size' = get_image_size(image, box.w, box.h)
    /\ UNCHANGED <<tmp, pc, box, handles, doc, slides, deck, saved, arg, ret>>

\* Lines 84-118: the body returns or raises, the with block is left, and
\* the call returns the size computed or the default.
ExitWith ==
    /\ pc = "handle_body"
    /\ handles' = CloseOnExit(handles, ImageSizeBody(img, box.w, box.h).exc)
    /\ size' = get_image_size(img, box.w, box.h)
    /\ pc' = "handle_idle"
    /\ UNCHANGED <<tmp, img, box, doc, slides, deck, saved, arg, ret>>

NextHandles == OpenImage \/ OpenImageFails \/ ExitWith

SpecHandles == InitHandles /\ [][NextHandles]_vars

\* C20: the file get_image_size opens is closed by the time it returns, on
\* the return of the body and on every exception: between calls no file is
\* open, after any sequence of calls, and within a call only the one file.
C20_HandleClosed ==
    /\ pc = "handle_idle" => handles = 0
    /\ pc = "handle_body" => handles = 1

\* A call opened its file, divided by the zero height or DPI inside the with
\* block, and returned the default size.
C20_Witness ==
    /\ pc = "handle_idle" /\ handles = 0
    /\ img.readable /\ (img.ph = 0 \/ img.dpi = 0)
    /\ size = DefaultImageSize

(***************************************************************************)
(* SpecMain: main (lines 2565-2595) from its first line, with and without  *)
(* the input document, with and without a writable output file             *)
(***************************************************************************)

\* Sections with the problems a run meets: a background color that is no
\* hex color and an image file that does not open, an image reference that
\* resolves to no file, a section without a heading.
MainSections ==
    { Section("h2", "Findings", "zzz", <<P("Results are mixed.")>>,
              <<ImgTag("images/bad.png", "")>>),
      Section("h2", "Our Mission", "", <<ChallengeCard, P("A silent killer spreads.")>>,
              <<ImgTag("images/gone.png", "")>>),
      Section("", "", "#005", <<P("Thank you.")>>, <<>>) }

\* arg is the file system main finds: whether the input document exists
\* and whether the output file can be written.
InitMain ==
    /\ pc = "main"
    /\ doc \in SeqsUpTo(MainSections, MaxSlides)
    /\ arg \in [html_exists : BOOLEAN, writable : BOOLEAN]
    /\ slides = <<>> /\ deck = <<>> /\ saved = NotSaved
    /\ img = ImageFile(FALSE, 0, 0, NoDpi)
    /\ box = [w |-> 0, h |-> 0]
    /\ size = NoSize
    /\ handles = 0 /\ tmp = {} /\ ret = ""

\* Lines 2570-2572: the input document is missing; main returns.
InputMissing ==
    /\ pc = "main"
    /\ ~arg.html_exists
    /\ pc' = "done"
    /\ UNCHANGED <<tmp, doc, slides, deck, saved, img, box, size, handles, arg, ret>>

\* Lines 2570-2577: the input document exists; main goes on to parse it.
InputFound ==
    /\ pc = "main"
    /\ arg.html_exists
    /\ pc' = "parse"
    /\ UNCHANGED <<tmp, doc, slides, deck, saved, img, box, size, handles, arg, ret>>

\* Line 2562: prs.save writes the output file.
SaveWritten ==
    /\ pc = "assemble"
    /\ arg.writable
    /\ Save

\* Line 2562 and lines 2591-2594: prs.save raises, the handler of main
\* prints the error, and the run ends with no output file.
SaveFails ==
    /\ pc = "assemble"
    /\ Len(deck) = Len(slides)
    /\ ~arg.writable
    /\ pc' = "done"
    /\ UNCHANGED <<tmp, doc, slides, deck, saved, img, box, size, handles, arg, ret>>

NextMain ==
    InputMissing \/ InputFound \/ Parse \/ ProcessSlide \/ ProcessSlideRaises
    \/ SaveWritten \/ SaveFails

\* A step of main: its position or the deck changes.
MainStep == pc' # pc \/ Len(deck') # Len(deck)

\* main runs to its end: before its end some step can always be taken, no
\* step waits for anything, so steps go on being taken until the end.
MainRuns == []<>(pc = "done") \/ []<><<MainStep>>_vars

SpecMain == InitMain /\ [][NextMain]_vars /\ MainRuns

\* C21: when the input document exists and the output file can be written,
\* the run eventually writes the deck, with a slide for every Section,
\* whatever went wrong on the slides; the deck is written at most once and
\* only after every Section was processed; and a run ends without output
\* only when the input document is missing or the write failed.
C21_DeckEventuallyWritten ==
    /\ (arg.html_exists /\ arg.writable)
          ~> (pc = "done" /\ saved.written /\ Len(saved.slides) = Len(doc))
    /\ [](saved.written => pc = "done" /\ saved.slides = deck /\ Len(deck) = Len(slides))
    /\ [][saved.written => saved' = saved]_vars
    /\ [](pc = "done" /\ ~saved.written => ~arg.html_exists \/ ~arg.writable)

\* The deck was written although both layouts raised, on Sections with an
\* invalid background color, an unreadable image and an unresolved image.
C21_Witness ==
    /\ pc = "done" /\ saved.written /\ Len(saved.slides) = 2
    /\ saved.slides[1].raised /\ saved.slides[2].raised
    /\ doc[1].bg = "zzz" /\ doc[2].bg = ""

(***************************************************************************)
(* api_server.py: the /analyze and /baseline endpoints                     *)
(***************************************************************************)

\* The no_diabetes_pct of a request body: a number, the string 'nan', a
\* string float() rejects, no such key, or no JSON body at all.
Pct(kind, value) == [kind |-> kind, value |-> value]

\* Line 41, float(data.get('no_diabetes_pct', 65)): the exception it ends
\* with, "none" when it returns.
PctError(pct) ==
    CASE pct.kind = "nobody" -> "AttributeError"
      [] pct.kind = "text"   -> "ValueError"
      [] OTHER               -> "none"

\* Line 41: the number float() returns where it is one (not for nan).
PctValue(pct) == IF pct.kind = "absent" THEN 65 ELSE pct.value

\* The range check without its upper end.
PctAccepted_NoUpperBound(pct) ==
    PctError(pct) = "none" /\ pct.kind # "nan" /\ 40 <= PctValue(pct)

\* Line 45, 40 <= no_diabetes_pct <= 70; every comparison with nan is false.
PctAccepted(pct) ==
    PctError(pct) = "none" /\ pct.kind # "nan"
    /\ 40 <= PctValue(pct) /\ PctValue(pct) <= 70

\* What the Rscript child process did: whether it ran into the timeout of
\* 120 seconds, its exit code, whether the output file exists afterwards,
\* and what the file holds.
ScriptResult(timeout, returncode, exists, json) ==
    [timeout |-> timeout, returncode |-> returncode, exists |-> exists, json |-> json]

NoResult == ScriptResult(FALSE, 0, FALSE, "")

\* Lines 64-100 and 110-113: the status /analyze answers with once the
\* child process was started.
AnalyzeStatus(result) ==
    IF result.timeout THEN 500                       \* lines 110-111
    ELSE IF result.returncode # 0 THEN 500           \* lines 72-78
    ELSE IF ~result.exists THEN 500                  \* lines 81-86
    ELSE IF result.json = "invalid" THEN 500         \* line 89 raises
    ELSE IF result.json # "object" THEN 500          \* line 92 raises
    ELSE 200

\* Lines 131-139 and 148-149: the status /baseline answers with.
BaselineStatus(result) ==
    IF result.timeout THEN 500
    ELSE IF result.returncode # 0 THEN 500           \* lines 133-134
    ELSE IF ~result.exists THEN 500                  \* line 136 raises
    ELSE IF result.json = "invalid" THEN 500         \* line 137 raises
    ELSE 200

\* The output file left where it is when the handler returns.
AfterFinally_Kept(files, file, exists, removable) == files

\* Lines 102-108 and 141-146, the finally block: the file is removed when
\* it exists; when os.remove raises, the exception is dropped and the file
\* stays.
AfterFinally(files, file, exists, removable) ==
    IF exists /\ ~removable THEN files ELSE files \ {file}

\* A request answered: the endpoint, the HTTP status of the response,
\* whether the handler created its temporary file, what the child process
\* did, and whether os.remove raised in the finally block.
Response(endpoint, status, created, result, remove_raised) ==
    [endpoint |-> endpoint, status |-> status, created |-> created, result |-> result,
     remove_raised |-> remove_raised]

(***************************************************************************)
(* SpecApi: requests to /analyze and /baseline, one after another          *)
(***************************************************************************)

\* The most temporary files left behind before no further request is made.
MaxTmp == 2

PctInputs ==
    {Pct("number", v) : v \in {39, 40, 55, 70, 71}}
    \cup {Pct("nan", 0), Pct("text", 0), Pct("absent", 0), Pct("nobody", 0)}

ScriptResults ==
    [timeout : BOOLEAN, returncode : {0, 1}, exists : BOOLEAN,
     json : {"object", "array", "invalid"}]

\* tempfile.NamedTemporaryFile: a name no file of the directory has.
FreshName(files) == CHOOSE n \in 1..(Cardinality(files) + 1) : n \notin files

InitApi ==
    /\ pc = "api_idle"
    /\ arg = [endpoint |-> "", pct |-> Pct("absent", 0), file |-> 0]
    /\ ret = Response("", 0, FALSE, NoResult, FALSE)
    /\ tmp = {}
    /\ doc = <<>> /\ slides = <<>> /\ deck = <<>> /\ saved = NotSaved
    /\ img = ImageFile(FALSE, 0, 0, NoDpi) /\ box = [w |-> 0, h |-> 0]
    /\ size = NoSize /\ handles = 0

\* Lines 37-46 and 112-113: /analyze answers before it creates a file,
\* with 400 for a number out of range and 500 when float() raises.
AnalyzeRejects ==
    /\ pc = "api_idle"
    /\ \E pct \in PctInputs :
          /\ ~PctAccepted(pct)
          /\ arg' = [endpoint |-> "analyze", pct |-> pct, file |-> 0]
          /\ ret' = Response("analyze", IF PctError(pct) = "none" THEN 400 ELSE 500,
                             FALSE, NoResult, FALSE)
    /\ UNCHANGED <<pc, tmp, doc, slides, deck, saved, img, box, size, handles>>

\* Lines 37-69: /analyze creates the temporary file and starts Rscript.
AnalyzeStarts ==
    /\ pc = "api_idle"
    /\ Cardinality(tmp) < MaxTmp
    /\ \E pct \in PctInputs :
          /\ PctAccepted(pct)
          /\ arg' = [endpoint |-> "analyze", pct |-> pct, file |-> FreshName(tmp)]
    /\ tmp' = tmp \cup {FreshName(tmp)}
    /\ pc' = "api_running"
    /\ UNCHANGED <<ret, doc, slides, deck, saved, img, box, size, handles>>

\* Lines 118-131: /baseline creates the temporary file and starts Rscript.
BaselineStarts ==
    /\ pc = "api_idle"
    /\ Cardinality(tmp) < MaxTmp
    /\ arg' = [endpoint |-> "baseline", pct |-> Pct("absent", 0), file |-> FreshName(tmp)]
    /\ tmp' = tmp \cup {FreshName(tmp)}
    /\ pc' = "api_running"
    /\ UNCHANGED <<ret, doc, slides, deck, saved, img, box, size, handles>>

\* Lines 64-113 and 131-149: the child process ends or is killed at the
\* timeout, the handler reads its output, the finally block runs, and the
\* response is returned.
ScriptEnds ==
    /\ pc = "api_running"
    /\ \E result \in ScriptResults, removable \in BOOLEAN :
          /\ ret' = Response(arg.endpoint,
                             IF arg.endpoint = "analyze" THEN AnalyzeStatus(result)
                             ELSE BaselineStatus(result),
                             TRUE, result, result.exists /\ ~removable)
          /\ tmp' = AfterFinally(IF result.exists THEN tmp ELSE tmp \ {arg.file},
                                 arg.file, result.exists, removable)
    /\ pc' = "api_idle"
    /\ UNCHANGED <<arg, doc, slides, deck, saved, img, box, size, handles>>

NextApi == AnalyzeRejects \/ AnalyzeStarts \/ BaselineStarts \/ ScriptEnds

SpecApi == InitApi /\ [][NextApi]_vars

(***************************************************************************)
(* Properties of the endpoints (SpecApi)                                   *)
(***************************************************************************)

\* The request was a number outside [40, 70], or nan.
OutOfRange(pct) ==
    \/ pct.kind = "nan"
    \/ pct.kind = "number" /\ (pct.value < 40 \/ pct.value > 70)

MaxItems == 3

\* <ul><li>..</li>..</ul>
Ul(items) == Node("ul", <<>>, "", [k \in 1..Len(items) |-> Leaf("li", <<>>, items[k])])

ListSections ==
    { Section("h2", "Findings", "", <<Ul(items)>> \o more, <<>>) :
        items \in SeqsUpTo({"", "First", "Second"}, MaxItems),
        more \in {<<>>, <<Ul(<<"Other">>)>>} }

InitLists == InitRun({<<section>> : section \in ListSections})

SpecLists == InitLists /\ [][Next]_vars

\* The texts of the direct items of the lists from the k-th on, in
\* document order.
RECURSIVE ItemTextsFrom(_, _, _)
ItemTextsFrom(soup, lists, k) ==
    IF k > Len(lists) THEN <<>>
    ELSE CleanTexts(soup, SelectPaths(Children(soup, lists[k]), soup, LAMBDA n : n.tag = "li"))
         \o ItemTextsFrom(soup, lists, k + 1)

ItemTexts(soup) == ItemTextsFrom(soup, FindAllTag(soup, <<>>, {"ul", "ol"}), 1)

\* C24: in the Generic layout every item with text, of the first six items
\* of the first three lists, is shown as one bullet line while the cursor
\* is within max_y; an empty item does not keep the items after it from
\* being shown.  (The lists of SpecLists are short of both limits and of
\* max_y.)
C24_EveryItemWithText ==
    \A i \in 1..Len(deck) :
        (~deck[i].raised /\ deck[i].ran = <<"Generic">>) =>
            TextsOf(deck[i], "list_item")
                = BulletLines(SelectSeq(ItemTexts(slides[i].soup), LAMBDA t : t # ""))

(***************************************************************************)
(* SpecBackground: documents of one section with a background color, over  *)
(* layouts that paint the slide and layouts that do not                    *)
(***************************************************************************)

\* Valid values of data-background-color, and none.
BackgroundColors == {"#123456", "#abc", "#fef2f2", ""}

BackgroundSections ==
    { Section("h2", title, bg, body, <<>>) :
        title \in {"Findings", "The Critical Blind Spot", "Questions?", "Our Mission"},
        bg \in BackgroundColors,
        body \in SeqsUpTo({P("Results are mixed."), ChallengeCard}, MaxBlocks) }

InitBackground == InitRun({<<section>> : section \in BackgroundSections})

SpecBackground == InitBackground /\ [][Next]_vars

\* C25: every slide whose Section has a valid background-color attribute
\* has that color as its background, whichever layout the Section got.
C25_SectionColorKept ==
    \A i \in 1..Len(deck) :
        slides[i].background_color # "" =>
            deck[i].background = hex_to_rgb(slides[i].background_color)

(***************************************************************************)
(* SpecAddText: add_text_element applied to every text of the bounds       *)
(***************************************************************************)

InitAddText ==
    /\ pc = "text_call"
    /\ arg \in TextsUpTo(MaxText)
    /\ ret = <<>>
    /\ doc = <<>> /\ slides = <<>> /\ deck = <<>> /\ saved = NotSaved
    /\ img = ImageFile(FALSE, 0, 0, NoDpi) /\ box = [w |-> 0, h |-> 0]
    /\ size = NoSize /\ handles = 0 /\ tmp = {}

\* add_text_element(slide, text, left_margin, y_pos, content_width, ...):
\* ret is what the call added to the slide.
CallAddTextElement ==
    /\ pc = "text_call"
    /\ ret' = add_text_element("", "", arg, left_margin, Inches100(120), content_width,
                               Inches100(50), 12, FALSE, "", "LEFT")
    /\ pc' = "text_done"
    /\ UNCHANGED <<tmp, doc, slides, deck, saved, img, box, size, handles, arg>>

NextAddText == CallAddTextElement

SpecAddText == InitAddText /\ [][NextAddText]_vars

\* C26: add_text_element adds no text box whose text is empty: when the
\* text is empty once clean_text has normalized it, no shape is added.
C26_NoEmptyTextBox ==
    pc = "text_done" =>
        /\ \A k \in 1..Len(ret) : ret[k].text # ""
        /\ clean_text(arg) = "" => ret = <<>>

(***************************************************************************)
(* clean_text applied to its own result (SpecClean)                        *)
(***************************************************************************)

\* C27: clean_text is idempotent: applied to its own result it returns the
\* result unchanged.
C27_CleanTextIdempotent ==
    pc = "clean_done" => clean_text(ret) = ret

(***************************************************************************)
(* SpecPca: documents of one PCA section whose Key Observation text is     *)
(* shorter than, as long as, and longer than the limit of 150 characters   *)
(***************************************************************************)

\* n times the letter x.
RECURSIVE Xs(_)
Xs(n) == IF n = 0 THEN "" ELSE IF n = 1 THEN "x" ELSE Xs(n \div 2) \o Xs(n - n \div 2)

\* The text of n characters that starts with prefix.
Padded(prefix, n) == prefix \o Xs(n - Len(prefix))

\* The region of class bg-light with the Key Observation.
KeyObservation(details) ==
    Node("div", <<"bg-light">>, "", <<Leaf("h4", <<>>, "Key Observation"), P(details)>>)

\* Texts around the limit: of letters only, of words, and with a character
\* of the class of line 36 between two spaces.
PcaDetails ==
    { Padded(prefix, n) : prefix \in {"", "Heavy overlap of the groups ", "Overlap + "},
                          n \in {40, 147, 149, 150, 151, 153, 200} }

PcaSections ==
    { Section("h2", "Principal Component Analysis", "", <<KeyObservation(details)>>, images) :
        details \in PcaDetails,
        images \in {<<>>, <<ImgTag("images/chart.png", "chart")>>} }
    \cup { Section("h2", "Principal Component Analysis", "", <<P("Results are mixed.")>>, <<>>) }

InitPca == InitRun({<<section>> : section \in PcaSections})

SpecPca == InitPca /\ [][Next]_vars

\* The Key Observation text as lines 1165-1180 leave it.
KeyObservationDetails(sd) ==
    PcaCardTexts(sd.soup, FindAllClass(sd.soup, <<>>, {"card"}))[3].details

MaxImages == 2

PictureTags ==
    { ImgTag("images/square.png", ""), ImgTag("images/tall.png", ""),
      ImgTag("images/chart.png", ""), ImgTag("images/dot.png", ""),
      ImgTag("/srv/abs.png", "") }

PictureSections ==
    { Section(headTag, "Findings", "", <<P("Results are mixed.")>>, images) :
        headTag \in {"h2", ""},
        images \in SeqsUpTo(PictureTags, MaxImages) }

InitPictures == InitRun({<<section>> : section \in PictureSections})

SpecPictures == InitPictures /\ [][Next]_vars

\* C29: every image the Generic layout places lies inside the canvas of
\* 10in x 7.5in: left >= 0, left + width <= 10in, top + height <= 7.5in.
C29_PicturesInsideCanvas ==
    \A i \in 1..Len(deck) :
        deck[i].ran = <<"Generic">> =>
            \A k \in 1..Len(deck[i].els) :
                deck[i].els[k].kind = "picture" =>
                    /\ deck[i].els[k].left >= 0
                    /\ deck[i].els[k].left + deck[i].els[k].width <= Inches100(1000)
                    /\ deck[i].els[k].top + deck[i].els[k].height <= CanvasHeight

(***************************************************************************)
(* SpecQuestions: documents of one Questions section with references that  *)
(* start with a number, hold one, or hold none                             *)
(***************************************************************************)

\* The most references a section of SpecQuestions has.
MaxRefs == 2

ReferenceTexts ==
    { "1. International Diabetes Federation Atlas",
      "International Diabetes Federation Atlas",
      "Pima Indians Diabetes Database",
      "James and others, 2013. Statistical Learning" }

\* <div><h4>References</h4><p>..</p>..</div>
ReferencesDiv(refs) ==
    Node("div", <<>>, "", <<Leaf("h4", <<>>, "References")>>
                          \o [k \in 1..Len(refs) |-> P(refs[k])])

QuestionsSections ==
    { Section("h2", "Questions?", "", <<ReferencesDiv(refs)>>, <<>>) :
        refs \in SeqsUpTo(ReferenceTexts, MaxRefs) }
    \cup { Section("h2", "Questions?", "", <<P("Thank you.")>>, <<>>) }

InitQuestions == InitRun({<<section>> : section \in QuestionsSections})

SpecQuestions == InitQuestions /\ [][Next]_vars

\* The reference at place k of the list, with the number of its place
\* before it when it does not start with a digit.
ExpectedReference(ref, k) ==
    IF Ch(ref, 1) \in Digits THEN ref ELSE NumberString(k) \o ". " \o ref

\* C30: every reference line of the Questions layout starts with a number:
\* a reference that does not start with a digit has its place in the list
\* shown, counted from 1, before it.
C30_ReferencesNumbered ==
    \A i \in 1..Len(deck) :
        (~deck[i].raised /\ deck[i].ran = <<"Questions">>) =>
            With(QuestionsReferences(slides[i].soup), LAMBDA refs :
                /\ Len(TextsOf(deck[i], "reference")) = Min2(Len(refs), 6)
                /\ \A k \in 1..Len(TextsOf(deck[i], "reference")) :
                      /\ Ch(TextsOf(deck[i], "reference")[k], 1) \in Digits
                      /\ TextsOf(deck[i], "reference")[k]
                            = clean_text(ExpectedReference(refs[k], k)))

====
